---- MODULE Spec2Model ----
(***************************************************************************)
(* Model of konveyor/controller pkg/inventory/model: the DB client, its    *)
(* transactions, the journal and the watch dispatcher.                     *)
(*                                                                         *)
(* Tasks of the program are the processes of the model:                    *)
(*   - one task per transaction (Begin .. Commit/End),                     *)
(*   - one subscribing task per watch (Client.Watch),                      *)
(*   - one dispatch goroutine per watch (the `run` closure of Watch.Start),*)
(*   - reader tasks (Client.Get).                                          *)
(* A task's position between two synchronisation points is part of the    *)
(* state, so that every interleaving of the tasks is explored.             *)
(***************************************************************************)
EXTENDS Integers, Sequences, FiniteSets, TLC

\* ------------------------------------------------------------------ bounds

\* Transactions begun in one behaviour.
MaxTx == 2
\* Events staged by one transaction.
MaxOps == 2
\* Calls of Commit or End made on one transaction after it was finished.
MaxAgain == 2
\* Calls of Start made on one watch by its owner.
MaxRestart == 1
\* Serial numbers issued in one behaviour of the tasks that only ask for them.
MaxIds == 4
\* Writes to labeled records in one behaviour.
MaxLabelOps == 3
\* Objects appended to the list in one behaviour.
MaxAppend == 2
MaxClose == 3
\* Calls of Watch.End by the owner of one watch.
MaxEnd == 2
\* Steps of a pipeline, and the bits of a Flag that steps use (of 16).
MaxSteps == 3
NFlags == 2
\* The clock of the authenticator and the TTL of a cached token, in ticks.
MaxTime == 3
TokenTTL == 1
\* Writes to the table with a unique group in one behaviour.
MaxUqOps == 3
\* Capacity of a watch queue in the model (the program uses 250).
QueueCap == 1

\* --------------------------------------------------------------- constants

\* A variant of NWriter: a pool with a second writer slot.
NWriterTwo == 1 + 1

\* Writer and reader slots of the session pool: r.pool.Open(1, 10, ...).
NWriter == 1
NReader == 10

\* Event actions (journal.go:19-27).
Started == 0
Parity == 1
Error == 2
End == 4
Created == 16
Updated == 32
Deleted == 64

\* Serial number pool keys: 0 for watch ids, 1 for event ids.
WatchSerial == 0
EventSerial == 1

Txs == 1..MaxTx
Watches == {"w1", "w2"}
Readers == {"r1"}
\* Tasks that call Serial.next at the same time.
SerialTasks == {1, 2}
\* Label names and values, and the Labels() maps a model may carry: a map is
\* the set of its name, value pairs.
LabelNames == {"n1", "n2"}
LabelValues == {"v1", "v2"}
LabelMaps ==
    {m \in SUBSET [name : LabelNames, value : LabelValues] :
        \A x, y \in m : x.name = y.name => x = y}
\* No row for the record.
NoModel == [present |-> FALSE, labels |-> {}]
Kinds == {"A", "B"}
\* Kinds that are watched.
WatchKinds == {"A"}
Keys == {1}
Recs == [kind : Kinds, key : Keys]
\* No transaction on labeled records is open.
NoLabelTx == [open |-> FALSE, models |-> [rec \in Recs |-> NoModel],
              labels |-> {}, ops |-> 0]
\* The fields of the stored object type and the options of their tags.
Fields == {"RowID", "PK", "ID", "Name", "Bool", "Slice", "Rev", "Fixed"}
FieldTag ==
    [f \in Fields |->
        CASE f = "RowID" -> {"virtual"}
          [] f = "PK" -> {"pk"}
          [] f = "ID" -> {"key"}
          [] f = "Rev" -> {"incremented"}
          [] f = "Fixed" -> {"const"}
          [] OTHER -> {}]
\* The objects a caller passes. A slice is nil, empty or holds elements.
Objects ==
    [RowID : {0}, PK : {"p"}, ID : {0, 1}, Name : {"Elmer", "Larry"},
     Bool : BOOLEAN, Slice : {"nil", "empty", "full"}, Rev : {0, 1},
     Fixed : {"c1", "c2"}]
\* The steps of a pipeline: a Flag is the set of its bits that are 1.
FlagBits == 0..(NFlags - 1)
StepNames == {"a", "b"}
Steps == [Name : StepNames, Any : SUBSET FlagBits, All : SUBSET FlagBits]
\* The bearer tokens of requests, "" for a request without one; the answers
\* of a token review; a token that is not cached; no request yet.
Tokens == {"a", "b"}
Reviews == {"valid", "invalid", "error"}
NoTime == -1
NoRequest == [token |-> "", cachedAt |-> NoTime, at |-> 0, reviewed |-> FALSE,
              review |-> "valid", outcome |-> "none"]
\* The models of a type with `sql:"pk"` PK, `sql:"unique(a)"` U and Name.
UPks == {"p", "q"}
UModels == [PK : UPks, U : {1, 1 + 1}, Name : {"Elmer", "Larry"}]
NoURow == [present |-> FALSE, U |-> 0, Name |-> ""]
NoUq == [rows |-> [p \in UPks |-> NoURow], staged |-> <<>>,
         last |-> "none", m |-> [PK |-> "p", U |-> 0, Name |-> ""],
         err |-> "nil", ops |-> 0]
\* No object (a Get that has not been made), and no row.
NoObject ==
    [found |-> FALSE,
     m |-> [RowID |-> 0, PK |-> "p", ID |-> 0, Name |-> "Elmer",
            Bool |-> FALSE, Slice |-> "nil", Rev |-> 0, Fixed |-> "c1"]]
NoRow ==
    [present |-> FALSE,
     cols |-> [RowID |-> 0, PK |-> "p", ID |-> 0, Name |-> "Elmer",
               Bool |-> 0, Slice |-> "[]", Rev |-> 0, Fixed |-> "c1"]]
\* The rowid the DB gives the row.
RowIDOfRow == 1
\* Max detail level.
MaxDetail == 10
\* The fields of the listed type. A tag is its key options and the N of its
\* d<N> option, NoDetail without one.
DetailFields == {"F1", "F2"}
NoDetail == -1
DetailTags == [opts : {{}, {"pk"}, {"key"}}, d : {NoDetail} \cup 0..MaxDetail]
NoTag == [opts |-> {}, d |-> NoDetail]
\* No List yet.
NoList == [done |-> FALSE, detail |-> 0, populated |-> {}]
\* The iterators taken from the list, and the types of the objects appended.
Iterators == {"i1", "i2"}
ObjectKinds == {"Person", "User"}
\* A nil *os.File, a nil object, an iterator not yet taken and no call yet.
NoFile == 0
NilObject == [kind |-> "nil", id |-> 0]
NoReader ==
    [made |-> FALSE, empty |-> FALSE, error |-> "nil", path |-> 0,
     file |-> NoFile, offset |-> 0]
NoResult ==
    [op |-> "none", hasNext |-> FALSE, object |-> NilObject, err |-> "nil",
     length |-> 0]
\* The writes a caller makes on a transaction.
Writes ==
    [action : {Created, Updated, Deleted}, rec : [kind : WatchKinds, key : Keys]]
    \cup [action : {Created}, rec : [kind : Kinds \ WatchKinds, key : Keys]]

VARIABLES
    rows,        \* committed rows of the DB file
    txRows,      \* txRows[t]: rows as seen inside transaction t
    txState,     \* txState[t]: position of the task owning transaction t
    ended,       \* ended[t]: Tx.ended
    staged,      \* staged[t]: Tx.staged, the list of staged events
    issued,      \* issued[t]: the writes the caller made on t, in call order
    serial,      \* Serial.pool
    writers,     \* free writer slots of the pool
    readers,     \* free reader slots of the pool
    commitOrder, \* transactions in the order their real commit completed
    reportOrder, \* transactions in the order their list reached the journal
    reported,    \* reported[t]: the list handed to the journal for t
    watchList,   \* Journal.watchList
    queue,       \* queue[w]: Watch.queue (buffered channel)
    qclosed,     \* qclosed[w]: the channel has been closed
    wstarted,    \* Watch.started
    wdone,       \* Watch.done
    wid,         \* Watch.id
    wkind,       \* kind of Watch.Model
    wsnap,       \* handler.Options().Snapshot
    wpc,         \* position of the task inside Client.Watch
    wheld,       \* writer sessions parked by the task (`writers` of Client.Watch)
    snapshot,    \* snapshot[w]: records read by Find for the watch
    snapAt,      \* number of commits completed when the snapshot was read
    dpc,         \* position of the dispatch goroutine
    cur,         \* iterator the dispatch goroutine is draining
    count,       \* `count` of the run closure
    finished,    \* batches the dispatch goroutine has drained without error
    calls,       \* calls[w]: handler callbacks made so far, in order
    rpc,         \* position of a reader task
    got,         \* what the reader task's last Get observed
    again,       \* again[t]: Commit/End calls made on t after it was finished
    ret,         \* ret[t]: what the last of these calls, or the last Delete of an
                 \* absent row, returned
    closed,      \* Journal.Close has been called
    closing,     \* the watches Journal.Close has still to end
    atClose,     \* Journal.watchList as Journal.Close found it
    endReq,      \* endReq[w]: Journal.End terminated w while it was started
    restarts,    \* restarts[w]: Start calls made on w after Client.Watch returned
    active,      \* active[w]: the tasks that are inside a callback of w's handler
    smutex,      \* Serial.mutex: the task that holds it, 0 when free
    spc,         \* spc[p]: position of task p inside Serial.next
    skey,        \* skey[p]: `key` of the call
    ssn,         \* ssn[p]: `sn` of the call
    idlog,       \* the serial numbers issued, in the order they were issued
    modelLabels, \* committed rows of the labeled records, each with the Labels()
                 \* of the model it was last written from
    labelRows,   \* committed rows of the Label table
    ltx,         \* the open transaction on labeled records: its rows, its
                 \* Label rows and the writes made so far
    objRow,      \* the row of the object in its table: the column values
    objA,        \* the object the caller wrote last, as the call left it
    objB,        \* the object the last Get filled, if any since the last write
    objLast,     \* the last write that succeeded
    objEvent,    \* the event staged by the last write that succeeded
    inodes,      \* the files of the working directory: inodes[i] holds the
                 \* header count and the entries of file i
    links,       \* the directory entries: path and file
    nextPath,    \* paths made so far by newPath
    writer,      \* List.writer: path, file (NoFile for nil) and length
    rd,          \* rd[i]: the iterator i: error, path, file and position
    res,         \* res[i]: what the last call on iterator i returned
    appended,    \* objects appended to the list, in order
    yielded,     \* yielded[i]: objects iterator i returned, in order
    dtag,        \* dtag[f]: the tag of field f of the listed type
    dlist,       \* the last List: its Detail and the fields it populated
    cpc,         \* position of the task inside Client.Close
    closeCalls,  \* Client.Close calls that have returned
    poolCloses,  \* Pool.Close calls made
    dbFile,      \* the database file exists
    closeRet,    \* what the last Client.Close returned
    cerr,        \* cerr[t]: the result `err` of Tx.Commit on t when its
                 \* deferred function ran
    beginRet,    \* beginRet[t]: the results `tx` and `error` of the
                 \* Client.Begin that was to make transaction t
    cop,         \* cop[t]: the write operation of the client that began t,
                 \* and the position of the task inside it
    ending,      \* ending[w]: the tasks inside WatchWriter.end() of the handler
                 \* of w, at the r.mutex.Lock() of Journal.End
    hended,      \* hended[w]: WatchWriter.end() of the handler of w was called
    qcloses,     \* qcloses[w]: the number of close(w.queue) executed
    endCalls,    \* endCalls[w]: the calls of Watch.End made by the owner of w
    au,          \* the authenticator: its token cache, the clock and the
                 \* last request it handled
    itin,        \* an itinerary: its pipeline, the flags its predicate allows,
                 \* and the last call of Next with its results
    uq           \* a table with a unique(group) column in one transaction: its
                 \* rows by primary key, the staged events, the last write and
                 \* its error

txVars == <<rows, txRows, txState, ended, staged, issued, serial, writers,
            commitOrder, reportOrder, reported>>
journalVars == <<watchList, queue, qclosed, calls>>
watchVars == <<wstarted, wdone, wid, wkind, wsnap, wpc, wheld, snapshot, snapAt>>
runVars == <<dpc, cur, count, finished>>
readVars == <<readers, rpc, got>>
\* Variables that only the steps which are their own touch.
serialVars == <<smutex, spc, skey, ssn, idlog>>
labelVars == <<modelLabels, labelRows, ltx>>
objVars == <<objRow, objA, objB, objLast, objEvent>>
listVars == <<inodes, links, nextPath, writer, rd, res, appended, yielded>>
detailVars == <<dtag, dlist>>
shutVars == <<cpc, closeCalls, poolCloses, dbFile, closeRet>>
lockVars == <<ending, hended>>
endVars == <<qcloses, endCalls>>
extraVars == <<again, ret, closed, closing, atClose, endReq, restarts, active,
              serialVars, labelVars, objVars, listVars, detailVars, shutVars,
              cerr, beginRet, cop, lockVars, uq, endVars, au, itin>>
vars == <<txVars, journalVars, watchVars, runVars, readVars, extraVars>>

\* ----------------------------------------------------------------- helpers

Range(s) == {s[i] : i \in 1..Len(s)}

\* Position of x in sequence s, 0 when absent.
IndexOf(s, x) == IF x \in Range(s) THEN CHOOSE i \in 1..Len(s) : s[i] = x ELSE 0

\* The write operations of the client, and a transaction that none began.
ClientOps == {"Insert", "Update", "Delete", "Execute"}
NoClientOp == [op |-> "none", pos |-> "none"]

\* No Client.Begin has returned.
NoBegin == [made |-> FALSE, tx |-> FALSE, error |-> "nil"]

NoEvent == [id |-> 0, action |-> Started, kind |-> "", key |-> 0, tx |-> 0]
NoRead == [rec |-> [kind |-> "", key |-> 0], found |-> FALSE]
NoBatch == [tx |-> 0, items |-> <<>>, live |-> FALSE]

\* Serial.next(key): the value issued and the pool afterwards.
SerialNext(pool, key) == pool[key] + 1
SerialPut(pool, key) == [pool EXCEPT ![key] = pool[key] + 1]

\* A variant of Match that lets every kind through.
MatchAny(w, e) == TRUE

\* Watch.Match: by kind.
Match(w, e) == wkind[w] = e.kind

\* Watch.Alive.
Alive(w) == ~wdone[w]

\* -------------------------------------------------------------------- Init

Init ==
    /\ rows = {}
    /\ txRows = [t \in Txs |-> {}]
    /\ txState = [t \in Txs |-> "new"]
    /\ ended = [t \in Txs |-> FALSE]
    /\ staged = [t \in Txs |-> <<>>]
    /\ issued = [t \in Txs |-> <<>>]
    /\ serial = [k \in {WatchSerial, EventSerial} |-> 0]
    /\ writers = NWriter
    /\ readers = NReader
    /\ commitOrder = <<>>
    /\ reportOrder = <<>>
    /\ reported = [t \in Txs |-> <<>>]
    /\ watchList = <<>>
    /\ queue = [w \in Watches |-> <<>>]
    /\ qclosed = [w \in Watches |-> FALSE]
    /\ wstarted = [w \in Watches |-> FALSE]
    /\ wdone = [w \in Watches |-> FALSE]
    /\ wid = [w \in Watches |-> 0]
    /\ wkind = [w \in Watches |-> "A"]
    /\ wsnap = [w \in Watches |-> FALSE]
    /\ wpc = [w \in Watches |-> "none"]
    /\ wheld = [w \in Watches |-> 0]
    /\ snapshot = [w \in Watches |-> <<>>]
    /\ snapAt = [w \in Watches |-> 0]
    /\ dpc = [w \in Watches |-> "off"]
    /\ cur = [w \in Watches |-> NoBatch]
    /\ count = [w \in Watches |-> 0]
    /\ finished = [w \in Watches |-> <<>>]
    /\ calls = [w \in Watches |-> <<>>]
    /\ rpc = [r \in Readers |-> "idle"]
    /\ got = [r \in Readers |-> NoRead]
    /\ again = [t \in Txs |-> 0]
    /\ ret = [t \in Txs |-> "none"]
    /\ closed = FALSE
    /\ closing = <<>>
    /\ atClose = <<>>
    /\ endReq = [w \in Watches |-> FALSE]
    /\ restarts = [w \in Watches |-> 0]
    /\ active = [w \in Watches |-> {}]
    /\ smutex = 0
    /\ spc = [p \in SerialTasks |-> "idle"]
    /\ skey = [p \in SerialTasks |-> 0]
    /\ ssn = [p \in SerialTasks |-> 0]
    /\ idlog = <<>>
    /\ modelLabels = [rec \in Recs |-> NoModel]
    /\ labelRows = {}
    /\ ltx = NoLabelTx
    /\ objRow = NoRow
    /\ objA = NoObject
    /\ objB = NoObject
    /\ objLast = "none"
    /\ objEvent = [action |-> "none", model |-> NoObject.m, updated |-> NoObject.m]
    /\ inodes = <<>>
    /\ links = {}
    /\ nextPath = 0
    /\ writer = [path |-> 0, file |-> NoFile, length |-> 0]
    /\ rd = [i \in Iterators |-> NoReader]
    /\ res = [i \in Iterators |-> NoResult]
    /\ appended = <<>>
    /\ yielded = [i \in Iterators |-> <<>>]
    /\ dtag = [f \in DetailFields |-> NoTag]
    /\ dlist = NoList
    /\ cpc = "idle"
    /\ closeCalls = 0
    /\ poolCloses = 0
    /\ dbFile = TRUE
    /\ closeRet = "none"
    /\ cerr = [t \in Txs |-> "none"]
    /\ beginRet = [t \in Txs |-> NoBegin]
    /\ cop = [t \in Txs |-> NoClientOp]
    /\ ending = [w \in Watches |-> {}]
    /\ hended = [w \in Watches |-> FALSE]
    /\ uq = NoUq
    /\ itin = [pipeline |-> <<>>, allowed |-> {}, name |-> "", called |-> FALSE,
               next |-> 0, done |-> FALSE, err |-> "nil"]
    /\ au = [cache |-> [k \in Tokens |-> NoTime], now |-> 0, last |-> NoRequest]
    /\ qcloses = [w \in Watches |-> 0]
    /\ endCalls = [w \in Watches |-> 0]

\* ------------------------------------------------------------ transactions

\* Event.append: the event and its model(s) go to the end of the staged list.
EventAppend(list, e) == Append(list, e)

NewEvent(t, action, rec) ==
    [id |-> SerialNext(serial, EventSerial), action |-> action,
     kind |-> rec.kind, key |-> rec.key, tx |-> t]

\* Stage the event of a write made on t and record the write.
Stage(t, action, rec) ==
    /\ staged' = [staged EXCEPT ![t] = EventAppend(@, NewEvent(t, action, rec))]
    /\ issued' = [issued EXCEPT ![t] = Append(@, [action |-> action, rec |-> rec])]
    /\ serial' = SerialPut(serial, EventSerial)

\* The results of Client.Begin, `(tx *Tx, error error)`: tx is set when
\* session.Begin() succeeded; the error of session.Begin() is wrapped into
\* the local `err`, and nothing assigns the result `error`.
BeginResult(failed) == [made |-> TRUE, tx |-> ~failed, error |-> "nil"]

\* Client.Begin: take the writer session, begin the real transaction.
Begin(t) ==
    /\ txState[t] = "new"
    /\ t > 1 => txState[t - 1] # "new"
    /\ writers > 0
    /\ writers' = writers - 1
    /\ txState' = [txState EXCEPT ![t] = "open"]
    /\ txRows' = [txRows EXCEPT ![t] = rows]
    /\ beginRet' = [beginRet EXCEPT ![t] = BeginResult(FALSE)]
    /\ UNCHANGED <<rows, ended, staged, issued, serial, commitOrder,
                   reportOrder, reported>>
    /\ UNCHANGED <<journalVars, watchVars, runVars, readVars>>
    /\ UNCHANGED <<again, ret, closed, closing, atClose, endReq, restarts, active, serialVars, labelVars, objVars, listVars, detailVars, shutVars, cerr, cop, lockVars, uq, endVars, au, itin>>

\* Client.Begin when session.Begin() fails: the call returns at once, with
\* the writer session it took from the pool, which nothing returns.
BeginFail(t) ==
    /\ txState[t] = "new"
    /\ t > 1 => txState[t - 1] # "new"
    /\ writers > 0
    /\ writers' = writers - 1
    /\ txState' = [txState EXCEPT ![t] = "unbegun"]
    /\ beginRet' = [beginRet EXCEPT ![t] = BeginResult(TRUE)]
    /\ UNCHANGED <<rows, txRows, ended, staged, issued, serial, commitOrder,
                   reportOrder, reported>>
    /\ UNCHANGED <<journalVars, watchVars, runVars, readVars>>
    /\ UNCHANGED <<again, ret, closed, closing, atClose, endReq, restarts, active, serialVars, labelVars, objVars, listVars, detailVars, shutVars, cerr, cop, lockVars, uq, endVars, au, itin>>

\* Tx.Insert: Table.Insert (an existing row is updated instead), then the
\* Created event is staged.
TxInsert(t, rec) ==
    /\ txState[t] = "open"
    /\ Len(staged[t]) < MaxOps
    /\ txRows' = [txRows EXCEPT ![t] = @ \cup {rec}]
    /\ Stage(t, Created, rec)
    /\ UNCHANGED <<rows, txState, ended, writers, commitOrder, reportOrder,
                   reported>>
    /\ UNCHANGED <<journalVars, watchVars, runVars, readVars>>
    /\ UNCHANGED extraVars

\* A variant of TxUpdate that stages no event.
TxUpdateUnstaged(t, rec) ==
    /\ txState[t] = "open"
    /\ Len(staged[t]) < MaxOps
    /\ rec \in txRows[t]
    /\ issued' = [issued EXCEPT ![t] = Append(@, [action |-> Updated, rec |-> rec])]
    /\ UNCHANGED <<rows, txRows, txState, ended, staged, serial, writers,
                   commitOrder, reportOrder, reported>>
    /\ UNCHANGED <<journalVars, watchVars, runVars, readVars>>
    /\ UNCHANGED extraVars

\* Tx.Update: the current row is read first; without it the call returns
\* the error and nothing is staged.
TxUpdate(t, rec) ==
    /\ txState[t] = "open"
    /\ Len(staged[t]) < MaxOps
    /\ rec \in txRows[t]
    /\ Stage(t, Updated, rec)
    /\ UNCHANGED <<rows, txRows, txState, ended, writers, commitOrder,
                   reportOrder, reported>>
    /\ UNCHANGED <<journalVars, watchVars, runVars, readVars>>
    /\ UNCHANGED extraVars

\* Tx.Delete: the row is read first; without it the call returns and nothing
\* is staged.
TxDelete(t, rec) ==
    /\ txState[t] = "open"
    /\ Len(staged[t]) < MaxOps
    /\ rec \in txRows[t]
    /\ txRows' = [txRows EXCEPT ![t] = @ \ {rec}]
    /\ Stage(t, Deleted, rec)
    /\ UNCHANGED <<rows, txState, ended, writers, commitOrder, reportOrder,
                   reported>>
    /\ UNCHANGED <<journalVars, watchVars, runVars, readVars>>
    /\ UNCHANGED extraVars

\* What Tx.Delete returns after Table.Get: the error of Table.Get is
\* returned as it is, also when it is NotFound.
DeleteGetError(found) == IF found THEN "nil" ELSE "NotFound"

\* Tx.Delete of a model whose row is absent: Table.Get fails and the call
\* returns before Table.Delete, the event and Labeler.Delete.
TxDeleteAbsent(t, rec) ==
    /\ txState[t] = "open"
    /\ rec \notin txRows[t]
    /\ ret' = [ret EXCEPT ![t] = DeleteGetError(rec \in txRows[t])]
    /\ UNCHANGED txVars
    /\ UNCHANGED <<journalVars, watchVars, runVars, readVars>>
    /\ UNCHANGED <<again, closed, closing, atClose, endReq, restarts, active, serialVars, labelVars, objVars, listVars, detailVars, shutVars, cerr, beginRet, cop, lockVars, uq, endVars, au, itin>>

\* A variant of UpdateGetError for an Update that is a no-op without the row.
UpdateGetErrorNil(found) == "nil"

\* What Tx.Update returns after `err = Table{r.real}.Get(current)`.
UpdateGetError(found) == IF found THEN "nil" ELSE "NotFound"

\* Tx.Update of a model whose row is absent: Table.Get fails and the call
\* returns before Table.Update, the event and Labeler.Replace.
TxUpdateAbsent(t, rec) ==
    /\ txState[t] = "open"
    /\ rec \notin txRows[t]
    /\ ret' = [ret EXCEPT ![t] = UpdateGetError(rec \in txRows[t])]
    /\ UNCHANGED txVars
    /\ UNCHANGED <<journalVars, watchVars, runVars, readVars>>
    /\ UNCHANGED <<again, closed, closing, atClose, endReq, restarts, active, serialVars, labelVars, objVars, listVars, detailVars, shutVars, cerr, beginRet, cop, lockVars, uq, endVars, au, itin>>

\* Client.Insert, Update, Delete and Execute, entry: the call of r.Begin()
\* is next.
ClientCall(t, op) ==
    /\ txState[t] = "new"
    /\ cop[t] = NoClientOp
    /\ t > 1 => cop[t - 1].pos \in {"returned", "panic"}
    /\ cop' = [cop EXCEPT ![t] = [op |-> op, pos |-> "begin"]]
    /\ UNCHANGED <<txVars, journalVars, watchVars, runVars, readVars>>
    /\ UNCHANGED <<again, ret, closed, closing, atClose, endReq, restarts, active, serialVars, labelVars, objVars, listVars, detailVars, shutVars, cerr, beginRet, lockVars, uq, endVars, au, itin>>

\* The task of a client operation has come back from r.Begin() with a
\* transaction and has not called the operation of the transaction.
AtOp(t, ops) ==
    /\ cop[t].op \in ops
    /\ cop[t].pos = "begin"
    /\ txState[t] = "open"
    /\ issued[t] = <<>>
    /\ ret[t] = "none"

\* Tx.Execute in Client.Execute: r.real.Exec(sql) succeeds, with whatever
\* rows the statement writes, or fails.
TxExecute(t) ==
    /\ AtOp(t, {"Execute"})
    /\ \E ok \in BOOLEAN : \E written \in SUBSET Recs :
        txRows' = [txRows EXCEPT ![t] = IF ok THEN @ \cup written ELSE @]
    /\ cop' = [cop EXCEPT ![t].pos = "executed"]
    /\ UNCHANGED <<rows, txState, ended, staged, issued, serial, writers,
                   commitOrder, reportOrder, reported>>
    /\ UNCHANGED <<journalVars, watchVars, runVars, readVars>>
    /\ UNCHANGED <<again, ret, closed, closing, atClose, endReq, restarts, active, serialVars, labelVars, objVars, listVars, detailVars, shutVars, cerr, beginRet, lockVars, uq, endVars, au, itin>>

\* The return of a client operation: of Client.Execute after tx.Execute, of
\* the others after the deferred tx.Commit() or tx.End().
ClientReturn(t) ==
    /\ IF cop[t].op = "Execute"
       THEN cop[t].pos = "executed"
       ELSE cop[t].pos = "begin" /\ txState[t] \in {"closed", "ended"}
    /\ cop' = [cop EXCEPT ![t].pos = "returned"]
    /\ UNCHANGED <<txVars, journalVars, watchVars, runVars, readVars>>
    /\ UNCHANGED <<again, ret, closed, closing, atClose, endReq, restarts, active, serialVars, labelVars, objVars, listVars, detailVars, shutVars, cerr, beginRet, lockVars, uq, endVars, au, itin>>

\* A client operation after a Begin that failed: r.Begin() returned a nil
\* transaction and a nil error, and the call on the nil *Tx panics.
ClientPanic(t) ==
    /\ cop[t].pos = "begin"
    /\ txState[t] = "unbegun"
    /\ cop' = [cop EXCEPT ![t].pos = "panic"]
    /\ UNCHANGED <<txVars, journalVars, watchVars, runVars, readVars>>
    /\ UNCHANGED <<again, ret, closed, closing, atClose, endReq, restarts, active, serialVars, labelVars, objVars, listVars, detailVars, shutVars, cerr, beginRet, lockVars, uq, endVars, au, itin>>

\* Tx.Commit up to the return of r.real.Commit(): the real commit succeeds
\* or fails.
Commit(t) ==
    /\ txState[t] = "open"
    /\ ~ended[t]
    /\ ended' = [ended EXCEPT ![t] = TRUE]
    /\ \E ok \in BOOLEAN :
        IF ok
        THEN /\ rows' = txRows[t]
             /\ commitOrder' = Append(commitOrder, t)
             /\ txState' = [txState EXCEPT ![t] = "committed"]
        ELSE /\ UNCHANGED <<rows, commitOrder>>
             /\ txState' = [txState EXCEPT ![t] = "failed"]
    /\ UNCHANGED <<txRows, staged, issued, serial, writers, reportOrder,
                   reported>>
    /\ UNCHANGED <<journalVars, watchVars, runVars, readVars>>
    /\ UNCHANGED extraVars

\* A variant of AfterReturn that reports whatever the commit returned.
AfterReturnAlways(t) == "report"

\* Position of the task after r.session.Return() in the deferred function
\* of Tx.Commit: report() follows only when the commit returned no error.
AfterReturn(t) == IF txState[t] = "committed" THEN "report" ELSE "closed"

\* The named result of Tx.Commit: `err = r.real.Commit()`.
CommitErr(t) == IF txState[t] = "failed" THEN "err" ELSE "nil"

\* Deferred function of Tx.Commit, first statement: r.session.Return(). The
\* result `err` is the one the call returns: nothing assigns it afterwards.
CommitReturn(t) ==
    /\ txState[t] \in {"committed", "failed"}
    /\ writers' = writers + 1
    /\ txState' = [txState EXCEPT ![t] = AfterReturn(t)]
    /\ cerr' = [cerr EXCEPT ![t] = CommitErr(t)]
    /\ UNCHANGED <<rows, txRows, ended, staged, issued, serial, commitOrder,
                   reportOrder, reported>>
    /\ UNCHANGED <<journalVars, watchVars, runVars, readVars>>
    /\ UNCHANGED <<again, ret, closed, closing, atClose, endReq, restarts, active, serialVars, labelVars, objVars, listVars, detailVars, shutVars, beginRet, cop, lockVars, uq, endVars, au, itin>>

\* List.Iter: a reader over the list, or the empty iterator.
Iter(t, list) == [tx |-> t, items |-> list, live |-> TRUE]

\* handler.Error(err) for the iterator of transaction t.
ErrorCall(t, err) ==
    [cb |-> Error, ev |-> [NoEvent EXCEPT !.tx = t], live |-> FALSE, err |-> err]

FullQueue == "full queue, event discarded"
ReadFailed == "next() failed"

\* A variant of notify that drops the iterator of a full queue in silence.
notifySilent(w, itr) ==
    IF qclosed[w] \/ Len(queue[w]) >= QueueCap
    THEN [q |-> queue[w], c |-> calls[w]]
    ELSE [q |-> Append(queue[w], itr), c |-> calls[w]]

\* Watch.notify: non-blocking send; on a full queue the handler gets Error
\* and the iterator is dropped; a send on a closed channel panics and the
\* panic is recovered.
notify(w, itr) ==
    IF qclosed[w]
    THEN [q |-> queue[w], c |-> calls[w]]
    ELSE IF Len(queue[w]) < QueueCap
         THEN [q |-> Append(queue[w], itr), c |-> calls[w]]
         ELSE [q |-> queue[w], c |-> Append(calls[w], ErrorCall(itr.tx, FullQueue))]

\* A variant of committed that gives up at the first watch whose queue is
\* full: the watches after it in the list are not notified.
committedUntilFull(t, list) ==
    LET stuck(w) == \E i \in 1..Len(watchList) :
                        /\ i < IndexOf(watchList, w)
                        /\ ~qclosed[watchList[i]]
                        /\ Len(queue[watchList[i]]) >= QueueCap
    IN /\ queue' = [w \in Watches |->
                        IF w \in Range(watchList) /\ ~stuck(w)
                        THEN notify(w, Iter(t, list)).q
                        ELSE queue[w]]
       /\ calls' = [w \in Watches |->
                        IF w \in Range(watchList) /\ ~stuck(w)
                        THEN notify(w, Iter(t, list)).c
                        ELSE calls[w]]

\* Journal.committed: every registered watch is notified with its own
\* iterator over the list.
committed(t, list) ==
    /\ queue' = [w \in Watches |->
                    IF w \in Range(watchList)
                    THEN notify(w, Iter(t, list)).q
                    ELSE queue[w]]
    /\ calls' = [w \in Watches |->
                    IF w \in Range(watchList)
                    THEN notify(w, Iter(t, list)).c
                    ELSE calls[w]]

\* Journal.Report: under the journal lock, forward the list to the watches.
Report(t, list) ==
    /\ committed(t, list)
    /\ reportOrder' = Append(reportOrder, t)
    /\ reported' = [reported EXCEPT ![t] = list]

\* Tx.report, called last in the deferred function of Tx.Commit.
report(t) ==
    /\ txState[t] = "report"
    /\ IF Len(staged[t]) = 0
       THEN UNCHANGED <<reportOrder, reported, queue, calls>>
       ELSE Report(t, staged[t])
    /\ staged' = [staged EXCEPT ![t] = <<>>]
    /\ txState' = [txState EXCEPT ![t] = "closed"]
    /\ UNCHANGED <<rows, txRows, ended, issued, serial, writers, commitOrder>>
    /\ UNCHANGED <<watchList, qclosed>>
    /\ UNCHANGED <<watchVars, runVars, readVars>>
    /\ UNCHANGED extraVars

\* Tx.End: roll back, return the session, discard the staged list.
TxEnd(t) ==
    /\ txState[t] = "open"
    /\ ~ended[t]
    /\ ended' = [ended EXCEPT ![t] = TRUE]
    /\ txRows' = [txRows EXCEPT ![t] = {}]
    /\ writers' = writers + 1
    /\ staged' = [staged EXCEPT ![t] = <<>>]
    /\ txState' = [txState EXCEPT ![t] = "ended"]
    /\ UNCHANGED <<rows, issued, serial, commitOrder, reportOrder, reported>>
    /\ UNCHANGED <<journalVars, watchVars, runVars, readVars>>
    /\ UNCHANGED extraVars

\* A variant of IsEnded for a transaction that forgot it was finished.
IsEndedNever(t) == FALSE

\* `if r.ended { return }` at the top of Tx.Commit and Tx.End.
IsEnded(t) == ended[t]

\* A call on a finished transaction that gets past the r.ended test: the
\* deferred function returns the session once more and the real transaction
\* answers that it is done.
PastEnded(t) ==
    /\ ended' = [ended EXCEPT ![t] = TRUE]
    /\ writers' = writers + 1
    /\ ret' = [ret EXCEPT ![t] = "err"]
    /\ UNCHANGED <<rows, txRows, txState, staged, issued, serial, commitOrder,
                   reportOrder, reported>>

\* Tx.Commit called on a transaction whose Commit or End has returned.
CommitAgain(t) ==
    /\ txState[t] \in {"closed", "ended"}
    /\ again[t] < MaxAgain
    /\ again' = [again EXCEPT ![t] = @ + 1]
    /\ UNCHANGED <<closed, closing, atClose, endReq, restarts, active, serialVars, labelVars, objVars, listVars, detailVars, shutVars, cerr, beginRet, cop, lockVars, uq, endVars, au, itin>>
    /\ IF IsEnded(t)
       THEN ret' = [ret EXCEPT ![t] = "nil"] /\ UNCHANGED txVars
       ELSE PastEnded(t)
    /\ UNCHANGED <<journalVars, watchVars, runVars, readVars>>

\* Tx.End called on a transaction whose Commit or End has returned.
EndAgain(t) ==
    /\ txState[t] \in {"closed", "ended"}
    /\ again[t] < MaxAgain
    /\ again' = [again EXCEPT ![t] = @ + 1]
    /\ UNCHANGED <<closed, closing, atClose, endReq, restarts, active, serialVars, labelVars, objVars, listVars, detailVars, shutVars, cerr, beginRet, cop, lockVars, uq, endVars, au, itin>>
    /\ IF IsEnded(t)
       THEN ret' = [ret EXCEPT ![t] = "nil"] /\ UNCHANGED txVars
       ELSE PastEnded(t)
    /\ UNCHANGED <<journalVars, watchVars, runVars, readVars>>

\* ------------------------------------------------------------------ watches

\* Records of a kind in ascending key order, as Find returns them.
RECURSIVE SortedKeys(_)
SortedKeys(S) ==
    IF S = {} THEN <<>>
    ELSE LET m == CHOOSE x \in S : \A y \in S : x <= y
         IN <<m>> \o SortedKeys(S \ {m})

SnapshotEvent(kind, key) ==
    [id |-> 0, action |-> Created, kind |-> kind, key |-> key, tx |-> 0]

\* table.Find(model, ListOptions{Detail: 1}) on a reader session.
Find(kind) ==
    LET keys == SortedKeys({r.key : r \in {x \in rows : x.kind = kind}})
    IN [i \in 1..Len(keys) |-> SnapshotEvent(kind, keys[i])]

\* Client.Watch, entry: handler.Options() tells whether a snapshot is wanted.
ClientWatch(w, kind, snap) ==
    /\ wpc[w] = "none"
    /\ w = "w2" => wpc["w1"] # "none"
    /\ wkind' = [wkind EXCEPT ![w] = kind]
    /\ wsnap' = [wsnap EXCEPT ![w] = snap]
    /\ wpc' = [wpc EXCEPT ![w] = IF snap THEN "block" ELSE "register"]
    /\ UNCHANGED <<wstarted, wdone, wid, wheld, snapshot, snapAt>>
    /\ UNCHANGED <<txVars, journalVars, runVars, readVars>>
    /\ UNCHANGED extraVars

\* blockWriting: one pass of the loop takes one writer session.
blockWriting(w) ==
    /\ wpc[w] = "block"
    /\ writers > 0
    /\ writers' = writers - 1
    /\ wheld' = [wheld EXCEPT ![w] = @ + 1]
    /\ wpc' = [wpc EXCEPT ![w] = IF wheld[w] + 1 = NWriter THEN "find" ELSE "block"]
    /\ UNCHANGED <<rows, txRows, txState, ended, staged, issued, serial,
                   commitOrder, reportOrder, reported>>
    /\ UNCHANGED <<wstarted, wdone, wid, wkind, wsnap, snapshot, snapAt>>
    /\ UNCHANGED <<journalVars, runVars, readVars>>
    /\ UNCHANGED extraVars

\* A variant of ReadSnapshot that returns from a failed Find with the writer
\* sessions still parked.
ReadSnapshotKeeps(w) ==
    /\ wpc[w] = "find"
    /\ readers > 0
    /\ \E ok \in BOOLEAN :
        IF ok
        THEN /\ snapshot' = [snapshot EXCEPT ![w] = Find(wkind[w])]
             /\ snapAt' = [snapAt EXCEPT ![w] = Len(commitOrder)]
             /\ readers' = readers - 1
             /\ wpc' = [wpc EXCEPT ![w] = "register"]
        ELSE /\ wpc' = [wpc EXCEPT ![w] = "failed"]
             /\ UNCHANGED <<snapshot, snapAt, readers>>
    /\ UNCHANGED <<writers, wheld>>
    /\ UNCHANGED <<rows, txRows, txState, ended, staged, issued, serial,
                   commitOrder, reportOrder, reported>>
    /\ UNCHANGED <<wstarted, wdone, wid, wkind, wsnap>>
    /\ UNCHANGED <<journalVars, runVars, rpc, got>>
    /\ UNCHANGED extraVars

\* The snapshot is read on a reader session; when Find fails Client.Watch
\* returns and its deferred calls give the sessions back.
ReadSnapshot(w) ==
    /\ wpc[w] = "find"
    /\ readers > 0
    /\ \E ok \in BOOLEAN :
        IF ok
        THEN /\ snapshot' = [snapshot EXCEPT ![w] = Find(wkind[w])]
             /\ snapAt' = [snapAt EXCEPT ![w] = Len(commitOrder)]
             /\ readers' = readers - 1
             /\ wpc' = [wpc EXCEPT ![w] = "register"]
             /\ UNCHANGED <<writers, wheld>>
        ELSE /\ writers' = writers + wheld[w]
             /\ wheld' = [wheld EXCEPT ![w] = 0]
             /\ wpc' = [wpc EXCEPT ![w] = "failed"]
             /\ UNCHANGED <<snapshot, snapAt, readers>>
    /\ UNCHANGED <<rows, txRows, txState, ended, staged, issued, serial,
                   commitOrder, reportOrder, reported>>
    /\ UNCHANGED <<wstarted, wdone, wid, wkind, wsnap>>
    /\ UNCHANGED <<journalVars, runVars, rpc, got>>
    /\ UNCHANGED extraVars

\* A variant of JournalWatch after which the task gives the writer sessions
\* back, before it starts the watch.
JournalWatchRelease(w) ==
    /\ wpc[w] = "register"
    /\ wid' = [wid EXCEPT ![w] = SerialNext(serial, WatchSerial)]
    /\ serial' = SerialPut(serial, WatchSerial)
    /\ watchList' = Append(watchList, w)
    /\ queue' = [queue EXCEPT ![w] = <<>>]
    /\ wpc' = [wpc EXCEPT ![w] = "start"]
    /\ writers' = writers + wheld[w]
    /\ wheld' = [wheld EXCEPT ![w] = 0]
    /\ UNCHANGED <<rows, txRows, txState, ended, staged, issued,
                   commitOrder, reportOrder, reported>>
    /\ UNCHANGED <<wstarted, wdone, wkind, wsnap, snapshot, snapAt>>
    /\ UNCHANGED <<qclosed, calls, runVars, readVars>>
    /\ UNCHANGED extraVars

\* Journal.Watch: a new watch with the next watch id and an empty queue is
\* added to the watch list.
JournalWatch(w) ==
    /\ wpc[w] = "register"
    /\ wid' = [wid EXCEPT ![w] = SerialNext(serial, WatchSerial)]
    /\ serial' = SerialPut(serial, WatchSerial)
    /\ watchList' = Append(watchList, w)
    /\ queue' = [queue EXCEPT ![w] = <<>>]
    /\ wpc' = [wpc EXCEPT ![w] = "start"]
    /\ UNCHANGED <<rows, txRows, txState, ended, staged, issued, writers,
                   commitOrder, reportOrder, reported>>
    /\ UNCHANGED <<wstarted, wdone, wkind, wsnap, wheld, snapshot, snapAt>>
    /\ UNCHANGED <<qclosed, calls, runVars, readVars>>
    /\ UNCHANGED extraVars

StartedCall == [cb |-> Started, ev |-> NoEvent, live |-> FALSE, err |-> ""]
ParityCall == [cb |-> Parity, ev |-> NoEvent, live |-> FALSE, err |-> ""]
EndCall == [cb |-> End, ev |-> NoEvent, live |-> FALSE, err |-> ""]

\* The snapshot handed to Start is the first iterator the run closure drains.
SnapshotIter(w) ==
    [tx |-> 0, items |-> snapshot[w], live |-> FALSE]

\* Watch.Start: handler.Started in the caller's task, then `go run()`.
Start(w) ==
    /\ wpc[w] = "start"
    /\ ~wstarted[w]
    /\ calls' = [calls EXCEPT ![w] = Append(@, StartedCall)]
    /\ wstarted' = [wstarted EXCEPT ![w] = TRUE]
    /\ cur' = [cur EXCEPT ![w] = SnapshotIter(w)]
    /\ dpc' = [dpc EXCEPT ![w] = "batch"]
    /\ wpc' = [wpc EXCEPT ![w] = "return"]
    /\ UNCHANGED <<wdone, wid, wkind, wsnap, wheld, snapshot, snapAt>>
    /\ UNCHANGED <<watchList, queue, qclosed, count, finished>>
    /\ UNCHANGED <<txVars, readVars>>
    /\ UNCHANGED extraVars

\* The iterator over nothing (fb.EmptyIterator).
EmptyIter == [tx |-> 0, items |-> <<>>, live |-> FALSE]

\* Watch.Start called by the owner of the watch that Client.Watch returned:
\* nothing happens while the watch is started; on a watch that has stopped
\* handler.Started is called and a new run closure, with a new count, goes
\* over the closed queue.
StartAgain(w) ==
    /\ wpc[w] = "watching"
    /\ restarts[w] < MaxRestart
    /\ restarts' = [restarts EXCEPT ![w] = @ + 1]
    /\ IF wstarted[w]
       THEN UNCHANGED <<calls, wstarted, cur, dpc, count>>
       ELSE /\ calls' = [calls EXCEPT ![w] = Append(@, StartedCall)]
            /\ wstarted' = [wstarted EXCEPT ![w] = TRUE]
            /\ cur' = [cur EXCEPT ![w] = EmptyIter]
            /\ dpc' = [dpc EXCEPT ![w] = "batch"]
            /\ count' = [count EXCEPT ![w] = 0]
    /\ UNCHANGED <<wdone, wid, wkind, wsnap, wpc, wheld, snapshot, snapAt>>
    /\ UNCHANGED <<watchList, queue, qclosed, finished>>
    /\ UNCHANGED <<txVars, readVars>>
    /\ UNCHANGED <<again, ret, closed, closing, atClose, endReq, active, serialVars, labelVars, objVars, listVars, detailVars, shutVars, cerr, beginRet, cop, lockVars, uq, endVars, au, itin>>

\* Return of Client.Watch: the deferred reader.Return() and unblockWriting().
ClientWatchReturn(w) ==
    /\ wpc[w] = "return"
    /\ readers' = IF wsnap[w] THEN readers + 1 ELSE readers
    /\ writers' = writers + wheld[w]
    /\ wheld' = [wheld EXCEPT ![w] = 0]
    /\ wpc' = [wpc EXCEPT ![w] = "watching"]
    /\ UNCHANGED <<rows, txRows, txState, ended, staged, issued, serial,
                   commitOrder, reportOrder, reported>>
    /\ UNCHANGED <<wstarted, wdone, wid, wkind, wsnap, snapshot, snapAt>>
    /\ UNCHANGED <<journalVars, runVars, rpc, got>>
    /\ UNCHANGED extraVars

\* A variant of terminate that leaves the queue open.
terminateNot(w) == qclosed

\* Watch.terminate: the queue is closed when the watch has been started.
terminate(w) == IF wstarted[w] THEN [qclosed EXCEPT ![w] = TRUE] ELSE qclosed

\* A variant of EndWatch that leaves the watch in the watch list.
EndWatchKeep(w) ==
    /\ qclosed' = IF w \in Range(watchList) THEN terminate(w) ELSE qclosed
    /\ qcloses' = IF w \in Range(watchList) /\ wstarted[w]
                  THEN [qcloses EXCEPT ![w] = @ + 1] ELSE qcloses
    /\ endReq' = [endReq EXCEPT ![w] = @ \/ (w \in Range(watchList) /\ wstarted[w])]
    /\ watchList' = watchList

\* Body of Journal.End under the journal lock: the watch found in the list
\* is terminated and left out of the new list; a watch that is not in the list
\* is not touched.
EndWatch(w) ==
    /\ qclosed' = IF w \in Range(watchList) THEN terminate(w) ELSE qclosed
    /\ qcloses' = IF w \in Range(watchList) /\ wstarted[w]
                  THEN [qcloses EXCEPT ![w] = @ + 1] ELSE qcloses
    /\ endReq' = [endReq EXCEPT ![w] = @ \/ (w \in Range(watchList) /\ wstarted[w])]
    /\ watchList' = SelectSeq(watchList, LAMBDA x : x # w)

\* Journal.End (Watch.End, Client.EndWatch): terminate the watch and drop it
\* from the watch list.
JournalEnd(w) ==
    /\ wpc[w] = "watching"
    /\ w \in Range(watchList)
    /\ EndWatch(w)
    /\ UNCHANGED <<queue, calls>>
    /\ UNCHANGED <<txVars, watchVars, runVars, readVars>>
    /\ UNCHANGED <<again, ret, closed, closing, atClose, restarts, active, serialVars, labelVars, objVars, listVars, detailVars, shutVars, cerr, beginRet, cop, lockVars, uq, endCalls, au, itin>>

\* Watch.End called by the owner of the watch that Client.Watch returned, in
\* any state of the watch and whether or not it was ended before.
WatchEnd(w) ==
    /\ wpc[w] = "watching"
    /\ endCalls[w] < MaxEnd
    /\ endCalls' = [endCalls EXCEPT ![w] = @ + 1]
    /\ EndWatch(w)
    /\ UNCHANGED <<queue, calls>>
    /\ UNCHANGED <<txVars, watchVars, runVars, readVars>>
    /\ UNCHANGED <<again, ret, closed, closing, atClose, restarts, active, serialVars, labelVars, objVars, listVars, detailVars, shutVars, cerr, beginRet, cop, lockVars, uq, au, itin>>

\* Journal.Close (Client.Close), entry: `range r.watchList` fixes the list of
\* watches to end.
JournalClose ==
    /\ ~closed
    /\ closed' = TRUE
    /\ closing' = watchList
    /\ atClose' = watchList
    /\ UNCHANGED <<again, ret, endReq, restarts, active, serialVars, labelVars, objVars, listVars, detailVars, shutVars, cerr, beginRet, cop, lockVars, uq, endVars, au, itin>>
    /\ UNCHANGED <<txVars, journalVars, watchVars, runVars, readVars>>

\* Journal.Close, one pass of the loop: r.End(w).
CloseEnd ==
    /\ closing # <<>>
    /\ EndWatch(Head(closing))
    /\ closing' = Tail(closing)
    /\ UNCHANGED <<again, ret, closed, atClose, restarts, active, serialVars, labelVars, objVars, listVars, detailVars, shutVars, cerr, beginRet, cop, lockVars, uq, endCalls, au, itin>>
    /\ UNCHANGED <<queue, calls>>
    /\ UNCHANGED <<txVars, watchVars, runVars, readVars>>

\* Client.Close, entry: r.journal.Close() is the first call made, and its
\* `range r.watchList` fixes the list of watches to end.
ClientClose ==
    /\ cpc = "idle"
    /\ closeCalls < MaxClose
    /\ cpc' = "journal"
    /\ closing' = watchList
    /\ atClose' = IF closed THEN atClose ELSE watchList
    /\ closed' = TRUE
    /\ UNCHANGED <<closeCalls, poolCloses, dbFile, closeRet>>
    /\ UNCHANGED <<again, ret, endReq, restarts, active, serialVars, labelVars, objVars, listVars, detailVars, cerr, beginRet, cop, lockVars, uq, endVars, au, itin>>
    /\ UNCHANGED <<txVars, journalVars, watchVars, runVars, readVars>>

\* Journal.Close has returned when its loop has ended every watch.
JournalClosed == closing = <<>>

\* Client.Close: r.pool.Close() after r.journal.Close() has returned. The
\* error of either call is logged and dropped.
PoolClose ==
    /\ cpc = "journal"
    /\ JournalClosed
    /\ cpc' = "pool"
    /\ poolCloses' = poolCloses + 1
    /\ UNCHANGED <<closeCalls, dbFile, closeRet>>
    /\ UNCHANGED <<again, ret, closed, closing, atClose, endReq, restarts, active, serialVars, labelVars, objVars, listVars, detailVars, cerr, beginRet, cop, lockVars, uq, endVars, au, itin>>
    /\ UNCHANGED <<txVars, journalVars, watchVars, runVars, readVars>>

\* Client.Close, the rest: os.Remove(r.path) when `delete` is set, and the
\* return of the named result `err`, which nothing has assigned.
ClientCloseReturn(delete) ==
    /\ cpc = "pool"
    /\ dbFile' = (dbFile /\ ~delete)
    /\ closeRet' = "nil"
    /\ closeCalls' = closeCalls + 1
    /\ cpc' = "idle"
    /\ UNCHANGED poolCloses
    /\ UNCHANGED <<again, ret, closed, closing, atClose, endReq, restarts, active, serialVars, labelVars, objVars, listVars, detailVars, cerr, beginRet, cop, lockVars, uq, endVars, au, itin>>
    /\ UNCHANGED <<txVars, journalVars, watchVars, runVars, readVars>>

\* ----------------------------------------------------------- dispatch task

\* A variant of HasParity that waits for the second iterator.
HasParitySecond(n) == n = 2

\* `count == 1` of the run closure.
HasParity(n) == n = 1

\* Callback chosen by the switch on event.Action.
Dispatch(e, live) == [cb |-> e.action, ev |-> e, live |-> live, err |-> ""]

\* Watch.next: the next event of the iterator, and the iterator after it.
NextEvent(items) == Head(items)
Rest(items) == Tail(items)

\* A variant of EndOfBatch that calls Parity before the callbacks of the pass.
EndOfBatchParityFirst(w, first) ==
    /\ count' = [count EXCEPT ![w] = @ + 1]
    /\ calls' = [calls EXCEPT ![w] =
                    IF count[w] + 1 = 1
                    THEN (@ \o <<ParityCall>>) \o first
                    ELSE @ \o first]
    /\ dpc' = [dpc EXCEPT ![w] = "recv"]
    /\ cur' = [cur EXCEPT ![w] = NoBatch]

\* A variant of EndOfBatch that leaves the loop, as on a closed queue, when a
\* callback of the pass was handler.Error.
EndOfBatchEndsOnError(w, first) ==
    /\ count' = [count EXCEPT ![w] = @ + 1]
    /\ calls' = [calls EXCEPT ![w] =
                    IF \E i \in 1..Len(first) : first[i].cb = Error
                    THEN (@ \o first) \o <<EndCall>>
                    ELSE IF HasParity(count[w] + 1)
                         THEN (@ \o first) \o <<ParityCall>>
                         ELSE @ \o first]
    /\ dpc' = [dpc EXCEPT ![w] =
                    IF \E i \in 1..Len(first) : first[i].cb = Error
                    THEN "stopped" ELSE "recv"]
    /\ cur' = [cur EXCEPT ![w] = NoBatch]

\* End of a pass of `for itr := range w.queue`: count++ and, on the first
\* pass, handler.Parity(). `first` are the callbacks made before it.
EndOfBatch(w, first) ==
    /\ count' = [count EXCEPT ![w] = @ + 1]
    /\ calls' = [calls EXCEPT ![w] =
                    IF HasParity(count[w] + 1)
                    THEN (@ \o first) \o <<ParityCall>>
                    ELSE @ \o first]
    /\ dpc' = [dpc EXCEPT ![w] = "recv"]
    /\ cur' = [cur EXCEPT ![w] = NoBatch]

\* A variant of Drain that makes the callbacks last event first.
RECURSIVE DrainReversed(_, _, _)
DrainReversed(w, items, live) ==
    IF items = <<>> THEN <<>>
    ELSE DrainReversed(w, Rest(items), live) \o
         (IF Match(w, NextEvent(items))
          THEN <<Dispatch(NextEvent(items), live)>>
          ELSE <<>>)

\* The inner loop of the run closure over an iterator that reads without
\* error: the callbacks for the events that match, in the iterator's order.
RECURSIVE Drain(_, _, _)
Drain(w, items, live) ==
    IF items = <<>> THEN <<>>
    ELSE (IF Match(w, NextEvent(items))
          THEN <<Dispatch(NextEvent(items), live)>>
          ELSE <<>>) \o Drain(w, Rest(items), live)

\* What reading an iterator can come to: every entry is read ("ok"); the
\* reader cannot be opened or read, next() returns the error ("readerr"); the
\* reader's file copy was not created, NextWith returns no entry ("linkerr").
Outcomes(b) == IF b.items = <<>> THEN {"ok"} ELSE {"ok", "readerr", "linkerr"}

\* One pass of `for itr := range w.queue` over the iterator received.
RunNext(w) ==
    /\ dpc[w] = "batch"
    /\ \E outcome \in Outcomes(cur[w]) :
        /\ EndOfBatch(w, CASE outcome = "ok" ->
                                Drain(w, cur[w].items, cur[w].live)
                           [] outcome = "readerr" -> <<ErrorCall(cur[w].tx, ReadFailed)>>
                           [] outcome = "linkerr" -> <<>>)
        /\ finished' = [finished EXCEPT ![w] =
                            IF outcome = "ok" THEN Append(@, cur[w].tx) ELSE @]
    /\ UNCHANGED <<watchList, queue, qclosed>>
    /\ UNCHANGED <<txVars, watchVars, readVars>>
    /\ UNCHANGED extraVars

\* Receive of `for itr := range w.queue`: the next iterator, or, once the
\* queue is closed and drained, the deferred function of the run closure.
RunRecv(w) ==
    /\ dpc[w] = "recv"
    /\ IF queue[w] # <<>>
       THEN /\ cur' = [cur EXCEPT ![w] = Head(queue[w])]
            /\ queue' = [queue EXCEPT ![w] = Tail(@)]
            /\ dpc' = [dpc EXCEPT ![w] = "batch"]
            /\ UNCHANGED <<wstarted, wdone, calls>>
       ELSE /\ qclosed[w]
            /\ wstarted' = [wstarted EXCEPT ![w] = FALSE]
            /\ wdone' = [wdone EXCEPT ![w] = TRUE]
            /\ calls' = [calls EXCEPT ![w] = Append(@, EndCall)]
            /\ dpc' = [dpc EXCEPT ![w] = "stopped"]
            /\ UNCHANGED <<cur, queue>>
    /\ UNCHANGED <<wid, wkind, wsnap, wpc, wheld, snapshot, snapAt>>
    /\ UNCHANGED <<watchList, qclosed, count, finished>>
    /\ UNCHANGED <<txVars, readVars>>
    /\ UNCHANGED extraVars

\* ------------------------------------------------- callbacks that take time

\* The steps below are those of report, RunNext and RunRecv with the call of a
\* handler and the return from it as two steps, so that a state shows which
\* tasks are inside a handler.

\* The dispatch goroutine among the tasks inside a handler; a committing
\* task goes by the number of its transaction.
RunTask == 0

\* Tx.report up to the calls of handler.Error that Watch.notify makes in the
\* committing task for the watches whose queue is full.
reportEnter(t) ==
    /\ txState[t] = "report"
    /\ IF Len(staged[t]) = 0
       THEN UNCHANGED <<reportOrder, reported, queue, calls, active>>
       ELSE /\ Report(t, staged[t])
            /\ active' = [w \in Watches |->
                            IF w \in Range(watchList)
                               /\ notify(w, Iter(t, staged[t])).c # calls[w]
                            THEN active[w] \cup {t}
                            ELSE active[w]]
    /\ txState' = [txState EXCEPT ![t] = "reporting"]
    /\ UNCHANGED <<rows, txRows, ended, staged, issued, serial, writers,
                   commitOrder>>
    /\ UNCHANGED <<watchList, qclosed>>
    /\ UNCHANGED <<watchVars, runVars, readVars>>
    /\ UNCHANGED <<again, ret, closed, closing, atClose, endReq, restarts, serialVars, labelVars, objVars, listVars, detailVars, shutVars, cerr, beginRet, cop, lockVars, uq, endVars, au, itin>>

\* Tx.report from the return of handler.Error to its own return.
reportLeave(t) ==
    /\ txState[t] = "reporting"
    /\ active' = [w \in Watches |-> active[w] \ {t}]
    /\ staged' = [staged EXCEPT ![t] = <<>>]
    /\ txState' = [txState EXCEPT ![t] = "closed"]
    /\ UNCHANGED <<rows, txRows, ended, issued, serial, writers, commitOrder,
                   reportOrder, reported>>
    /\ UNCHANGED <<journalVars, watchVars, runVars, readVars>>
    /\ UNCHANGED <<again, ret, closed, closing, atClose, endReq, restarts, serialVars, labelVars, objVars, listVars, detailVars, shutVars, cerr, beginRet, cop, lockVars, uq, endVars, au, itin>>

\* The run closure calls Created, Updated or Deleted for the next event of
\* the iterator, which matches.
RunEnter(w) ==
    /\ dpc[w] = "batch"
    /\ cur[w].items # <<>>
    /\ Match(w, NextEvent(cur[w].items))
    /\ calls' = [calls EXCEPT ![w] =
                    Append(@, Dispatch(NextEvent(cur[w].items), cur[w].live))]
    /\ active' = [active EXCEPT ![w] = @ \cup {RunTask}]
    /\ dpc' = [dpc EXCEPT ![w] = "incb"]
    /\ UNCHANGED <<cur, count, finished>>
    /\ UNCHANGED <<watchList, queue, qclosed>>
    /\ UNCHANGED <<txVars, watchVars, readVars>>
    /\ UNCHANGED <<again, ret, closed, closing, atClose, endReq, restarts, serialVars, labelVars, objVars, listVars, detailVars, shutVars, cerr, beginRet, cop, lockVars, uq, endVars, au, itin>>

\* The handler returns to the run closure.
RunLeave(w) ==
    /\ dpc[w] = "incb"
    /\ active' = [active EXCEPT ![w] = @ \ {RunTask}]
    /\ cur' = [cur EXCEPT ![w].items = Rest(@)]
    /\ dpc' = [dpc EXCEPT ![w] = "batch"]
    /\ UNCHANGED <<count, finished>>
    /\ UNCHANGED <<journalVars, txVars, watchVars, readVars>>
    /\ UNCHANGED <<again, ret, closed, closing, atClose, endReq, restarts, serialVars, labelVars, objVars, listVars, detailVars, shutVars, cerr, beginRet, cop, lockVars, uq, endVars, au, itin>>

\* The next event of the iterator does not match: `continue`.
RunSkip(w) ==
    /\ dpc[w] = "batch"
    /\ cur[w].items # <<>>
    /\ ~Match(w, NextEvent(cur[w].items))
    /\ cur' = [cur EXCEPT ![w].items = Rest(@)]
    /\ UNCHANGED <<dpc, count, finished>>
    /\ UNCHANGED <<journalVars, txVars, watchVars, readVars>>
    /\ UNCHANGED extraVars

\* The iterator has no next event: count++ and, on the first pass, Parity.
RunDone(w) ==
    /\ dpc[w] = "batch"
    /\ cur[w].items = <<>>
    /\ EndOfBatch(w, <<>>)
    /\ finished' = [finished EXCEPT ![w] = Append(@, cur[w].tx)]
    /\ UNCHANGED <<watchList, queue, qclosed>>
    /\ UNCHANGED <<txVars, watchVars, readVars>>
    /\ UNCHANGED extraVars

\* ------------------------------------------------- a handler that ends its watch

\* Journal.mutex is held by the committing task that is inside Journal.Report,
\* from the fan-out to the return of the last handler.Error.
JournalLocked == \E t \in Txs : txState[t] = "reporting"

\* WatchWriter.send inside a callback of the handler of w, made by task p:
\* WriteJSON fails and r.end() closes the socket and calls r.watch.End(),
\* which is Journal.End: the task is at r.mutex.Lock().
HandlerSendFails(p, w) ==
    /\ p \in active[w]
    /\ ~hended[w]
    /\ hended' = [hended EXCEPT ![w] = TRUE]
    /\ ending' = [ending EXCEPT ![w] = @ \cup {p}]
    /\ UNCHANGED <<txVars, journalVars, watchVars, runVars, readVars>>
    /\ UNCHANGED <<again, ret, closed, closing, atClose, endReq, restarts, active, serialVars, labelVars, objVars, listVars, detailVars, shutVars, cerr, beginRet, cop, uq, endVars, au, itin>>

\* Journal.End called by the handler: the task takes the lock when no task
\* holds it (sync.RWMutex: the holder itself waits as any other task does),
\* ends the watch and gives the lock back.
HandlerEnd(p, w) ==
    /\ p \in ending[w]
    /\ ~JournalLocked
    /\ EndWatch(w)
    /\ ending' = [ending EXCEPT ![w] = @ \ {p}]
    /\ UNCHANGED hended
    /\ UNCHANGED <<queue, calls>>
    /\ UNCHANGED <<txVars, watchVars, runVars, readVars>>
    /\ UNCHANGED <<again, ret, closed, closing, atClose, restarts, active, serialVars, labelVars, objVars, listVars, detailVars, shutVars, cerr, beginRet, cop, uq, endCalls, au, itin>>

\* Task p is not inside WatchWriter.end().
NotEnding(p) == \A w \in Watches : p \notin ending[w]

\* ------------------------------------------------------ a handler that writes

\* MutatingHandler: Created and Updated begin a transaction on the same DB,
\* update the record of the event and commit. The first transaction is the
\* caller's; the handler's k-th Created or Updated runs transaction k + 1, and
\* a handler that is called when the transactions are used up only returns.
DataCalls(w) ==
    SelectSeq(calls[w], LAMBDA c : c.cb \in {Created, Updated, Deleted})

HandlerTx(w) ==
    IF Len(DataCalls(w)) + 1 \in Txs THEN Len(DataCalls(w)) + 1 ELSE 0

\* The record of the event the handler was called with.
HandlerRec(w) ==
    [kind |-> NextEvent(cur[w].items).kind, key |-> NextEvent(cur[w].items).key]

\* A step of the handler, made by the dispatch goroutine inside the callback:
\* w.DB.Begin(), tx.Update(e.Model), tx.Commit() with its deferred function.
HandlerStep(w) ==
    /\ dpc[w] = "incb"
    /\ HandlerTx(w) # 0
    /\ \/ Begin(HandlerTx(w))
       \/ /\ issued[HandlerTx(w)] = <<>>
          /\ TxUpdate(HandlerTx(w), HandlerRec(w))
       \/ /\ issued[HandlerTx(w)] # <<>> \/ HandlerRec(w) \notin txRows[HandlerTx(w)]
          /\ Commit(HandlerTx(w))
       \/ CommitReturn(HandlerTx(w))
       \/ report(HandlerTx(w))

\* The handler returns once its Commit has returned.
HandlerLeave(w) ==
    /\ HandlerTx(w) # 0 => txState[HandlerTx(w)] = "closed"
    /\ RunLeave(w)

\* ------------------------------------------------------------- Serial.next

\* Serial.next, statement by statement, for tasks that call it at the same
\* time. The steps of transactions and watches take a serial number in one
\* step (SerialNext, SerialPut), which is what the mutex makes of these.

\* A variant of MutexFree for a Serial without its mutex.
MutexFreeAlways(m) == TRUE

\* r.mutex.Lock() goes through when no task holds the mutex.
MutexFree(m) == m = 0

\* Entry of Serial.next(key).
SerialCall(p, key) ==
    /\ spc[p] = "idle"
    /\ Len(idlog) + Cardinality({q \in SerialTasks : spc[q] # "idle"}) < MaxIds
    /\ skey' = [skey EXCEPT ![p] = key]
    /\ spc' = [spc EXCEPT ![p] = "lock"]
    /\ UNCHANGED <<smutex, ssn, idlog>>
    /\ UNCHANGED <<txVars, journalVars, watchVars, runVars, readVars>>
    /\ UNCHANGED <<again, ret, closed, closing, atClose, endReq, restarts, active, labelVars, objVars, listVars, detailVars, shutVars, cerr, beginRet, cop, lockVars, uq, endVars, au, itin>>

\* r.mutex.Lock().
SerialLock(p) ==
    /\ spc[p] = "lock"
    /\ MutexFree(smutex)
    /\ smutex' = p
    /\ spc' = [spc EXCEPT ![p] = "read"]
    /\ UNCHANGED <<skey, ssn, idlog>>
    /\ UNCHANGED <<txVars, journalVars, watchVars, runVars, readVars>>
    /\ UNCHANGED <<again, ret, closed, closing, atClose, endReq, restarts, active, labelVars, objVars, listVars, detailVars, shutVars, cerr, beginRet, cop, lockVars, uq, endVars, au, itin>>

\* sn = r.pool[key]: a key the pool does not hold reads as 0.
SerialRead(p) ==
    /\ spc[p] = "read"
    /\ ssn' = [ssn EXCEPT ![p] = serial[skey[p]]]
    /\ spc' = [spc EXCEPT ![p] = "write"]
    /\ UNCHANGED <<smutex, skey, idlog>>
    /\ UNCHANGED <<txVars, journalVars, watchVars, runVars, readVars>>
    /\ UNCHANGED <<again, ret, closed, closing, atClose, endReq, restarts, active, labelVars, objVars, listVars, detailVars, shutVars, cerr, beginRet, cop, lockVars, uq, endVars, au, itin>>

\* sn++; r.pool[key] = sn: the number is issued.
SerialWrite(p) ==
    /\ spc[p] = "write"
    /\ ssn' = [ssn EXCEPT ![p] = @ + 1]
    /\ serial' = [serial EXCEPT ![skey[p]] = ssn[p] + 1]
    /\ idlog' = Append(idlog, [key |-> skey[p], sn |-> ssn[p] + 1, task |-> p])
    /\ spc' = [spc EXCEPT ![p] = "unlock"]
    /\ UNCHANGED <<smutex, skey>>
    /\ UNCHANGED <<rows, txRows, txState, ended, staged, issued, writers,
                   commitOrder, reportOrder, reported>>
    /\ UNCHANGED <<journalVars, watchVars, runVars, readVars>>
    /\ UNCHANGED <<again, ret, closed, closing, atClose, endReq, restarts, active, labelVars, objVars, listVars, detailVars, shutVars, cerr, beginRet, cop, lockVars, uq, endVars, au, itin>>

\* return, and the deferred r.mutex.Unlock().
SerialReturn(p) ==
    /\ spc[p] = "unlock"
    /\ smutex' = 0
    /\ spc' = [spc EXCEPT ![p] = "idle"]
    /\ UNCHANGED <<skey, ssn, idlog>>
    /\ UNCHANGED <<txVars, journalVars, watchVars, runVars, readVars>>
    /\ UNCHANGED <<again, ret, closed, closing, atClose, endReq, restarts, active, labelVars, objVars, listVars, detailVars, shutVars, cerr, beginRet, cop, lockVars, uq, endVars, au, itin>>

\* ----------------------------------------------------------------- labels

\* The Label row of label l of model rec.
LabelOf(rec, l) ==
    [parent |-> rec.key, kind |-> rec.kind, name |-> l.name, value |-> l.value]

\* The unique key of a Label row.
LabelKey(row) == <<row.parent, row.kind, row.name>>

\* Table.Insert of a Label row: on a constraint error the existing row is
\* updated instead.
TableInsertLabel(table, row) ==
    {x \in table : LabelKey(x) # LabelKey(row)} \cup {row}

\* Labeler.Insert: one Table.Insert for each label of the model.
RECURSIVE LabelerInsert(_, _, _)
LabelerInsert(table, rec, labels) ==
    IF labels = {}
    THEN table
    ELSE LET l == CHOOSE x \in labels : TRUE
         IN LabelerInsert(TableInsertLabel(table, LabelOf(rec, l)), rec,
                          labels \ {l})

\* Labeler.Delete: the Label rows listed by And(Eq("Kind"), Eq("Parent"))
\* are deleted.
LabelerDelete(table, rec) ==
    {x \in table : ~(x.kind = rec.kind /\ x.parent = rec.key)}

\* Labeler.Replace: Delete, then Insert.
LabelerReplace(table, rec, labels) ==
    LabelerInsert(LabelerDelete(table, rec), rec, labels)

\* Client.Begin for a transaction on labeled records.
LabelBegin ==
    /\ ~ltx.open
    /\ ltx.ops < MaxLabelOps
    /\ ltx' = [open |-> TRUE, models |-> modelLabels, labels |-> labelRows,
               ops |-> ltx.ops]
    /\ UNCHANGED <<modelLabels, labelRows>>
    /\ UNCHANGED <<txVars, journalVars, watchVars, runVars, readVars>>
    /\ UNCHANGED <<again, ret, closed, closing, atClose, endReq, restarts, active, serialVars, objVars, listVars, detailVars, shutVars, cerr, beginRet, cop, lockVars, uq, endVars, au, itin>>

\* Tx.Insert of a labeled model: Table.Insert (an existing row is updated
\* instead), then Labeler.Insert.
LabelTxInsert(rec, labels) ==
    /\ ltx.open
    /\ ltx.ops < MaxLabelOps
    /\ ltx' = [ltx EXCEPT
                 !.models[rec] = [present |-> TRUE, labels |-> labels],
                 !.labels = LabelerInsert(@, rec, labels),
                 !.ops = @ + 1]
    /\ UNCHANGED <<modelLabels, labelRows>>
    /\ UNCHANGED <<txVars, journalVars, watchVars, runVars, readVars>>
    /\ UNCHANGED <<again, ret, closed, closing, atClose, endReq, restarts, active, serialVars, objVars, listVars, detailVars, shutVars, cerr, beginRet, cop, lockVars, uq, endVars, au, itin>>

\* Tx.Update of a labeled model: Table.Get and Table.Update (both fail
\* without the row), then Labeler.Replace.
LabelTxUpdate(rec, labels) ==
    /\ ltx.open
    /\ ltx.ops < MaxLabelOps
    /\ ltx' = IF ltx.models[rec].present
              THEN [ltx EXCEPT
                      !.models[rec] = [present |-> TRUE, labels |-> labels],
                      !.labels = LabelerReplace(@, rec, labels),
                      !.ops = @ + 1]
              ELSE [ltx EXCEPT !.ops = @ + 1]
    /\ UNCHANGED <<modelLabels, labelRows>>
    /\ UNCHANGED <<txVars, journalVars, watchVars, runVars, readVars>>
    /\ UNCHANGED <<again, ret, closed, closing, atClose, endReq, restarts, active, serialVars, objVars, listVars, detailVars, shutVars, cerr, beginRet, cop, lockVars, uq, endVars, au, itin>>

\* Tx.Delete of a labeled model: Table.Get (fails without the row),
\* Table.Delete, then Labeler.Delete.
LabelTxDelete(rec) ==
    /\ ltx.open
    /\ ltx.ops < MaxLabelOps
    /\ ltx' = IF ltx.models[rec].present
              THEN [ltx EXCEPT
                      !.models[rec] = NoModel,
                      !.labels = LabelerDelete(@, rec),
                      !.ops = @ + 1]
              ELSE [ltx EXCEPT !.ops = @ + 1]
    /\ UNCHANGED <<modelLabels, labelRows>>
    /\ UNCHANGED <<txVars, journalVars, watchVars, runVars, readVars>>
    /\ UNCHANGED <<again, ret, closed, closing, atClose, endReq, restarts, active, serialVars, objVars, listVars, detailVars, shutVars, cerr, beginRet, cop, lockVars, uq, endVars, au, itin>>

\* Tx.Commit: the rows and the Label rows of the transaction are committed
\* together.
LabelCommit ==
    /\ ltx.open
    /\ modelLabels' = ltx.models
    /\ labelRows' = ltx.labels
    /\ ltx' = [NoLabelTx EXCEPT !.ops = ltx.ops]
    /\ UNCHANGED <<txVars, journalVars, watchVars, runVars, readVars>>
    /\ UNCHANGED <<again, ret, closed, closing, atClose, endReq, restarts, active, serialVars, objVars, listVars, detailVars, shutVars, cerr, beginRet, cop, lockVars, uq, endVars, au, itin>>

\* Tx.End: the transaction is rolled back.
LabelEnd ==
    /\ ltx.open
    /\ ltx' = [NoLabelTx EXCEPT !.ops = ltx.ops]
    /\ UNCHANGED <<modelLabels, labelRows>>
    /\ UNCHANGED <<txVars, journalVars, watchVars, runVars, readVars>>
    /\ UNCHANGED <<again, ret, closed, closing, atClose, endReq, restarts, active, serialVars, objVars, listVars, detailVars, shutVars, cerr, beginRet, cop, lockVars, uq, endVars, au, itin>>

\* --------------------------------------------------------------- Table CRUD

hasOpt(f, name) == name \in FieldTag[f]
Pk(f) == hasOpt(f, "pk")
Key(f) == hasOpt(f, "key")
Virtual(f) == hasOpt(f, "virtual")
Incremented(f) == hasOpt(f, "incremented")

\* A variant of Mutable that lets const fields be updated.
MutableConst(f) == ~(Pk(f) \/ Key(f) \/ Virtual(f))

\* Field.Mutable: only mutable fields are updated.
Mutable(f) ==
    IF Pk(f) \/ Key(f) \/ Virtual(f) THEN FALSE ELSE ~hasOpt(f, "const")

MutableFields == {f \in Fields : Mutable(f)}
RealFields == {f \in Fields : ~Virtual(f)}

\* Field.Pull: the column value of a field value. A bool is 1 or 0, a slice
\* is its JSON text with "[]" for nil, an incremented integer is one more.
Pull(f, v) ==
    CASE f = "Bool" -> (IF v THEN 1 ELSE 0)
      [] f = "Slice" -> (IF v = "full" THEN "[x]" ELSE "[]")
      [] Incremented(f) -> v + 1
      [] OTHER -> v

\* Field.Push: the field value of a column value.
Push(f, c) ==
    CASE f = "Bool" -> c # 0
      [] f = "Slice" -> (IF c = "[]" THEN "empty" ELSE "full")
      [] OTHER -> c

\* Table.reflectIncremented: the model gets the incremented values.
reflectIncremented(m) ==
    [f \in Fields |-> IF Incremented(f) THEN Pull(f, m[f]) ELSE m[f]]

\* Table.Update, the row: UPDATE ... SET the mutable fields WHERE pk.
TableUpdate(row, m) ==
    [present |-> TRUE,
     cols |-> [f \in Fields |->
                 IF Mutable(f) THEN Pull(f, m[f]) ELSE row.cols[f]]]

\* Table.Insert, the row: INSERT of the real fields; on a constraint error
\* the row is updated instead.
TableInsert(row, m) ==
    IF row.present
    THEN TableUpdate(row, m)
    ELSE [present |-> TRUE,
          cols |-> [f \in Fields |->
                      IF Virtual(f) THEN RowIDOfRow ELSE Pull(f, m[f])]]

\* Table.scan: every field is pushed from its column.
scan(row) == [f \in Fields |-> Push(f, row.cols[f])]

\* A variant of the pre-image that reads the row after the UPDATE.
UpdatePreImageAfter(row, m) == scan(TableUpdate(row, m))

\* Tx.Update, the model of the event: a clone of m filled by Table.Get
\* before Table.Update is called.
UpdatePreImage(row, m) == scan(row)

\* Insert(m).
ObjInsert(m) ==
    /\ objRow' = TableInsert(objRow, m)
    /\ objEvent' = [action |-> "created", model |-> reflectIncremented(m),
                    updated |-> NoObject.m]
    /\ objA' = [found |-> TRUE, m |-> reflectIncremented(m)]
    /\ objB' = NoObject
    /\ objLast' = "insert"
    /\ UNCHANGED <<txVars, journalVars, watchVars, runVars, readVars>>
    /\ UNCHANGED <<again, ret, closed, closing, atClose, endReq, restarts, active, serialVars, labelVars, listVars, detailVars, shutVars, cerr, beginRet, cop, lockVars, uq, endVars, au, itin>>

\* Update(m): NotFound when no row has the primary key.
ObjUpdate(m) ==
    /\ IF objRow.present
       THEN /\ objRow' = TableUpdate(objRow, m)
            /\ objA' = [found |-> TRUE, m |-> reflectIncremented(m)]
            /\ objB' = NoObject
            /\ objLast' = "update"
            /\ objEvent' = [action |-> "updated",
                            model |-> UpdatePreImage(objRow, m),
                            updated |-> reflectIncremented(m)]
       ELSE UNCHANGED objVars
    /\ UNCHANGED <<txVars, journalVars, watchVars, runVars, readVars>>
    /\ UNCHANGED <<again, ret, closed, closing, atClose, endReq, restarts, active, serialVars, labelVars, listVars, detailVars, shutVars, cerr, beginRet, cop, lockVars, uq, endVars, au, itin>>

\* Get by the primary key of the object written last.
ObjGet ==
    /\ objA.found
    /\ objB' = IF objRow.present
               THEN [found |-> TRUE, m |-> scan(objRow)]
               ELSE NoObject
    /\ UNCHANGED <<objRow, objA, objLast, objEvent>>
    /\ UNCHANGED <<txVars, journalVars, watchVars, runVars, readVars>>
    /\ UNCHANGED <<again, ret, closed, closing, atClose, endReq, restarts, active, serialVars, labelVars, listVars, detailVars, shutVars, cerr, beginRet, cop, lockVars, uq, endVars, au, itin>>

\* Delete.
ObjDelete ==
    /\ objRow.present
    /\ objRow' = NoRow
    /\ objB' = NoObject
    /\ objLast' = "delete"
    /\ objEvent' = [action |-> "deleted", model |-> scan(objRow),
                    updated |-> NoObject.m]
    /\ UNCHANGED objA
    /\ UNCHANGED <<txVars, journalVars, watchVars, runVars, readVars>>
    /\ UNCHANGED <<again, ret, closed, closing, atClose, endReq, restarts, active, serialVars, labelVars, listVars, detailVars, shutVars, cerr, beginRet, cop, lockVars, uq, endVars, au, itin>>

\* ------------------------------------------------------- unique constraints

\* Another row holds the values of the unique group of m.
UniqueHit(urows, m) ==
    \E p \in UPks : p # m.PK /\ urows[p].present /\ urows[p].U = m.U

\* Table.Update on a table with a unique group: UPDATE ... WHERE pk. No row
\* affected is NotFound; a unique group held by another row fails the Exec.
UqUpdate(urows, m) ==
    IF ~urows[m.PK].present
    THEN [rows |-> urows, err |-> "NotFound"]
    ELSE IF UniqueHit(urows, m)
    THEN [rows |-> urows, err |-> "ErrConstraint"]
    ELSE [rows |-> [urows EXCEPT ![m.PK] =
                       [present |-> TRUE, U |-> m.U, Name |-> m.Name]],
          err |-> "nil"]

\* Table.Insert: INSERT of the fields; on sqlite3.ErrConstraint (the primary
\* key or the unique group is held by a row) the result is that of
\* Table.Update.
UqInsert(urows, m) ==
    IF urows[m.PK].present \/ UniqueHit(urows, m)
    THEN UqUpdate(urows, m)
    ELSE [rows |-> [urows EXCEPT ![m.PK] =
                       [present |-> TRUE, U |-> m.U, Name |-> m.Name]],
          err |-> "nil"]

\* A variant of Tx.Insert that stages the event whatever Table.Insert
\* returned.
InsertStagedAlways(evs, m, err) ==
    Append(evs, [action |-> "created", model |-> m])

\* Tx.Insert: the event is staged when Table.Insert returned nil.
InsertStaged(evs, m, err) ==
    IF err # "nil" THEN evs
    ELSE Append(evs, [action |-> "created", model |-> m])

\* Tx.Insert(m).
UqTxInsert(m) ==
    /\ uq.ops < MaxUqOps
    /\ LET r == UqInsert(uq.rows, m)
       IN uq' = [rows |-> r.rows,
                 staged |-> InsertStaged(uq.staged, m, r.err),
                 last |-> "insert", m |-> m, err |-> r.err,
                 ops |-> uq.ops + 1]
    /\ UNCHANGED <<txVars, journalVars, watchVars, runVars, readVars>>
    /\ UNCHANGED <<again, ret, closed, closing, atClose, endReq, restarts, active, serialVars, labelVars, objVars, listVars, detailVars, shutVars, cerr, beginRet, cop, lockVars, endVars, au, itin>>

\* Tx.Delete(m): DELETE ... WHERE pk, NotFound when no row was affected.
UqTxDelete(pk) ==
    /\ uq.ops < MaxUqOps
    /\ LET m == [PK |-> pk, U |-> uq.rows[pk].U, Name |-> uq.rows[pk].Name]
       IN uq' = IF uq.rows[pk].present
                THEN [rows |-> [uq.rows EXCEPT ![pk] = NoURow],
                      staged |-> Append(uq.staged,
                                        [action |-> "deleted", model |-> m]),
                      last |-> "delete", m |-> m, err |-> "nil",
                      ops |-> uq.ops + 1]
                ELSE [uq EXCEPT !.last = "delete", !.m = m,
                                !.err = "NotFound", !.ops = @ + 1]
    /\ UNCHANGED <<txVars, journalVars, watchVars, runVars, readVars>>
    /\ UNCHANGED <<again, ret, closed, closing, atClose, endReq, restarts, active, serialVars, labelVars, objVars, listVars, detailVars, shutVars, cerr, beginRet, cop, lockVars, endVars, au, itin>>

\* ------------------------------------------------------------ authenticator

\* Authenticator.prune: the tokens cached for longer than the TTL are evacuated.
prune(cache, now) ==
    [k \in Tokens |->
        IF cache[k] # NoTime /\ now - cache[k] > TokenTTL THEN NoTime ELSE cache[k]]

\* Authenticate after the token review: a review that failed aborts the
\* request; after any other review ctx.Next() is called.
AfterReview(review) == IF review = "error" THEN "500" ELSE "next"

\* Authenticator.Authenticate of a request with the given bearer token, and
\* the answer of the token review should one be made.
Authenticate(token, review) ==
    LET pruned == prune(au.cache, au.now)
        cachedAt == IF token = "" THEN NoTime ELSE au.cache[token]
        found == token # "" /\ pruned[token] # NoTime
        fresh == found /\ au.now - pruned[token] <= TokenTTL
        reviewed == token # "" /\ ~fresh
        outcome == IF token = "" THEN "401"
                   ELSE IF fresh THEN "next"
                   ELSE AfterReview(review)
        cache == IF reviewed /\ review = "valid"
                 THEN [pruned EXCEPT ![token] = au.now]
                 ELSE IF reviewed /\ review = "invalid"
                 THEN [pruned EXCEPT ![token] = NoTime]
                 ELSE pruned
    IN /\ au' = [cache |-> cache, now |-> au.now,
                 last |-> [token |-> token, cachedAt |-> cachedAt,
                           at |-> au.now, reviewed |-> reviewed,
                           review |-> IF reviewed THEN review ELSE "valid",
                           outcome |-> outcome]]
       /\ UNCHANGED <<txVars, journalVars, watchVars, runVars, readVars>>
       /\ UNCHANGED <<again, ret, closed, closing, atClose, endReq, restarts, active, serialVars, labelVars, objVars, listVars, detailVars, shutVars, cerr, beginRet, cop, lockVars, uq, endVars, itin>>

\* Time passes.
Tick ==
    /\ au.now < MaxTime
    /\ au' = [au EXCEPT !.now = @ + 1]
    /\ UNCHANGED <<txVars, journalVars, watchVars, runVars, readVars>>
    /\ UNCHANGED <<again, ret, closed, closing, atClose, endReq, restarts, active, serialVars, labelVars, objVars, listVars, detailVars, shutVars, cerr, beginRet, cop, lockVars, uq, endVars, itin>>

\* ---------------------------------------------------------------- itinerary

\* Itinerary.hasAny: the loop returns true at the first Any flag that the
\* predicate allows; after the loop allowed is set to true.
hasAny(step, allowed) ==
    IF \E f \in step.Any : f \in allowed THEN TRUE ELSE TRUE

\* Itinerary.hasAll: the loop returns false at the first All flag that the
\* predicate does not allow; after the loop allowed is set to true.
hasAll(step, allowed) ==
    IF \E f \in step.All : f \notin allowed THEN FALSE ELSE TRUE

\* Itinerary.Next, first loop: the index of the last step called name, 0
\* (for -1) without one.
Current(pipeline, name) ==
    IF \E i \in 1..Len(pipeline) : pipeline[i].Name = name
    THEN CHOOSE i \in 1..Len(pipeline) :
            /\ pipeline[i].Name = name
            /\ \A j \in (i + 1)..Len(pipeline) : pipeline[j].Name # name
    ELSE 0

\* Itinerary.Next, second loop: the first step after current that hasAny and
\* hasAll accept, 0 (for nil) without one.
NextStep(pipeline, allowed, current) ==
    LET ok == {i \in (current + 1)..Len(pipeline) :
                  hasAny(pipeline[i], allowed) /\ hasAll(pipeline[i], allowed)}
    IN IF ok = {} THEN 0 ELSE CHOOSE i \in ok : \A j \in ok : i <= j

\* A step is added to the pipeline of the itinerary.
AddStep(step) ==
    /\ Len(itin.pipeline) < MaxSteps
    /\ ~itin.called
    /\ itin' = [itin EXCEPT !.pipeline = Append(@, step)]
    /\ UNCHANGED <<txVars, journalVars, watchVars, runVars, readVars>>
    /\ UNCHANGED <<again, ret, closed, closing, atClose, endReq, restarts, active, serialVars, labelVars, objVars, listVars, detailVars, shutVars, cerr, beginRet, cop, lockVars, uq, endVars, au>>

\* Itinerary.Next(name) with a predicate that allows the given flags and
\* returns no error.
ItineraryNext(name, allowed) ==
    /\ ~itin.called
    /\ LET current == Current(itin.pipeline, name)
           next == NextStep(itin.pipeline, allowed, current)
       IN itin' = [pipeline |-> itin.pipeline, allowed |-> allowed,
                   name |-> name, called |-> TRUE,
                   next |-> IF current = 0 THEN 0 ELSE next,
                   done |-> current # 0 /\ next = 0,
                   err |-> IF current = 0 THEN "StepNotFound" ELSE "nil"]
    /\ UNCHANGED <<txVars, journalVars, watchVars, runVars, readVars>>
    /\ UNCHANGED <<again, ret, closed, closing, atClose, endReq, restarts, active, serialVars, labelVars, objVars, listVars, detailVars, shutVars, cerr, beginRet, cop, lockVars, uq, endVars, au>>

\* --------------------------------------------------------------- filebacked

\* The file a path names, NoFile when no entry of the directory has the path.
FileAt(path) ==
    IF \E l \in links : l.path = path
    THEN (CHOOSE l \in links : l.path = path).ino
    ELSE NoFile

\* os.Remove(path).
Remove(path) == {l \in links : l.path # path}

\* List.Append: Writer.open creates the file lazily and writes the length
\* the writer holds; writeEntry adds the entry and rewrites the length.
ListAppend(kind) ==
    /\ Len(appended) < MaxAppend
    /\ LET object == [kind |-> kind, id |-> Len(appended) + 1]
           opening == writer.file = NoFile
           ino == IF opening THEN Len(inodes) + 1 ELSE writer.file
           path == IF opening THEN nextPath + 1 ELSE writer.path
           files == IF opening
                    THEN Append(inodes, [entries |-> <<>>, count |-> writer.length])
                    ELSE inodes
       IN /\ inodes' = [files EXCEPT ![ino] =
                          [entries |-> Append(@.entries, object),
                           count |-> writer.length + 1]]
          /\ links' = IF opening
                      THEN links \cup {[path |-> path, ino |-> ino]}
                      ELSE links
          /\ nextPath' = IF opening THEN nextPath + 1 ELSE nextPath
          /\ writer' = [path |-> path, file |-> ino, length |-> writer.length + 1]
          /\ appended' = Append(appended, object)
    /\ UNCHANGED <<rd, res, yielded>>
    /\ UNCHANGED <<txVars, journalVars, watchVars, runVars, readVars>>
    /\ UNCHANGED <<again, ret, closed, closing, atClose, endReq, restarts, active, serialVars, labelVars, objVars, detailVars, shutVars, cerr, beginRet, cop, lockVars, uq, endVars, au, itin>>

\* A variant of WriterReader whose reader reads the writer's path.
WriterReaderShared ==
    [made |-> TRUE, empty |-> FALSE, error |-> "nil", path |-> writer.path,
     file |-> NoFile, offset |-> 0]

\* Writer.Reader: Sync, which fails on a nil file, then the new path is
\* linked to the writer's file.
WriterReader ==
    LET synced == writer.file # NoFile
    IN [made |-> TRUE, empty |-> FALSE,
        error |-> IF synced THEN "nil" ELSE "sync",
        path |-> nextPath + 1, file |-> NoFile, offset |-> 0]

\* List.Iter: a Reader when the list has objects, else the EmptyIterator.
ListIter(i) ==
    /\ ~rd[i].made
    /\ IF writer.length > 0
       THEN /\ rd' = [rd EXCEPT ![i] = WriterReader]
            /\ links' = IF writer.file # NoFile
                        THEN links \cup {[path |-> nextPath + 1, ino |-> writer.file]}
                        ELSE links
            /\ nextPath' = nextPath + 1
       ELSE /\ rd' = [rd EXCEPT ![i] = [NoReader EXCEPT !.made = TRUE, !.empty = TRUE]]
            /\ UNCHANGED <<links, nextPath>>
    /\ UNCHANGED <<inodes, writer, res, appended, yielded>>
    /\ UNCHANGED <<txVars, journalVars, watchVars, runVars, readVars>>
    /\ UNCHANGED <<again, ret, closed, closing, atClose, endReq, restarts, active, serialVars, labelVars, objVars, detailVars, shutVars, cerr, beginRet, cop, lockVars, uq, endVars, au, itin>>

\* Reader.open: os.Open of the reader's path unless the file is open; the
\* position is then past the length.
ReaderOpen(x) ==
    IF x.file # NoFile
    THEN [r |-> x, err |-> "nil"]
    ELSE IF FileAt(x.path) # NoFile
         THEN [r |-> [x EXCEPT !.file = FileAt(x.path), !.offset = 0],
               err |-> "nil"]
         ELSE [r |-> x, err |-> "open"]

\* Reader.readEntry: the entry at the position, or end of file.
readEntry(x) ==
    IF x.offset < Len(inodes[x.file].entries)
    THEN [r |-> [x EXCEPT !.offset = @ + 1], hasNext |-> TRUE,
          object |-> inodes[x.file].entries[x.offset + 1]]
    ELSE [r |-> x, hasNext |-> FALSE, object |-> NilObject]

\* A variant of Failed for a reader that forgets its error.
FailedNever(x) == FALSE

\* `if r.error != nil { return }` at the top of Next and NextWith.
Failed(x) == x.error # "nil"

\* Reader.Next and Reader.NextWith(object of type kind): the reader after the
\* call and what the call returns. The deferred function keeps err in r.error.
ReadNext(x, op, kind) ==
    IF x.empty \/ Failed(x)
    THEN [r |-> x,
          res |-> [op |-> op, hasNext |-> FALSE, object |-> NilObject,
                   err |-> "nil", length |-> 0]]
    ELSE LET o == ReaderOpen(x)
         IN IF o.err # "nil"
            THEN [r |-> [o.r EXCEPT !.error = o.err],
                  res |-> [op |-> op, hasNext |-> FALSE, object |-> NilObject,
                           err |-> o.err, length |-> 0]]
            ELSE LET e == readEntry(o.r)
                 IN IF ~e.hasNext
                    THEN [r |-> e.r,
                          res |-> [op |-> op, hasNext |-> FALSE,
                                   object |-> NilObject, err |-> "nil",
                                   length |-> 0]]
                    ELSE IF op = "NextWith" /\ kind # e.object.kind
                    THEN [r |-> [e.r EXCEPT !.error = "decode"],
                          res |-> [op |-> op, hasNext |-> TRUE,
                                   object |-> NilObject, err |-> "decode",
                                   length |-> 0]]
                    ELSE [r |-> e.r,
                          res |-> [op |-> op, hasNext |-> TRUE,
                                   object |-> e.object, err |-> "nil",
                                   length |-> 0]]

\* The caller's step for Next and NextWith.
Called(i, out) ==
    /\ rd' = [rd EXCEPT ![i] = out.r]
    /\ res' = [res EXCEPT ![i] = out.res]
    /\ yielded' = [yielded EXCEPT ![i] =
                     IF out.res.hasNext /\ out.res.err = "nil"
                     THEN Append(@, out.res.object)
                     ELSE @]
    /\ UNCHANGED <<inodes, links, nextPath, writer, appended>>
    /\ UNCHANGED <<txVars, journalVars, watchVars, runVars, readVars>>
    /\ UNCHANGED <<again, ret, closed, closing, atClose, endReq, restarts, active, serialVars, labelVars, objVars, detailVars, shutVars, cerr, beginRet, cop, lockVars, uq, endVars, au, itin>>

ReaderNext(i) ==
    /\ rd[i].made
    /\ Called(i, ReadNext(rd[i], "Next", "nil"))

ReaderNextWith(i, kind) ==
    /\ rd[i].made
    /\ Called(i, ReadNext(rd[i], "NextWith", kind))

\* A variant of SeekBack that leaves the position after the length.
SeekBackNot(offset) == 0

\* The deferred file.Seek(offset, io.SeekStart) of Reader.len.
SeekBack(offset) == offset

\* Reader.Len: lazy open, then the length at the head of the file is read
\* and the position restored. 0 when the file cannot be opened.
ReaderLen(i) ==
    /\ rd[i].made
    /\ LET o == ReaderOpen(rd[i])
       IN IF rd[i].empty \/ o.err # "nil"
          THEN /\ res' = [res EXCEPT ![i] = [NoResult EXCEPT !.op = "Len"]]
               /\ UNCHANGED rd
          ELSE /\ res' = [res EXCEPT ![i] =
                            [NoResult EXCEPT !.op = "Len",
                                             !.length = inodes[o.r.file].count]]
               /\ rd' = [rd EXCEPT ![i] = [o.r EXCEPT !.offset = SeekBack(@)]]
    /\ UNCHANGED <<inodes, links, nextPath, writer, appended, yielded>>
    /\ UNCHANGED <<txVars, journalVars, watchVars, runVars, readVars>>
    /\ UNCHANGED <<again, ret, closed, closing, atClose, endReq, restarts, active, serialVars, labelVars, objVars, detailVars, shutVars, cerr, beginRet, cop, lockVars, uq, endVars, au, itin>>

\* A variant of ReaderRemove that removes the writer's path as well.
ReaderRemoveAll(x) == Remove(writer.path) \ {l \in links : l.path = x.path}

\* The os.Remove(r.path) of Reader.Close.
ReaderRemove(x) == Remove(x.path)

\* Reader.Close: the file is closed and the reader's path removed. The
\* EmptyIterator has nothing to close.
ReaderClose(i) ==
    /\ rd[i].made
    /\ IF rd[i].empty
       THEN UNCHANGED <<rd, links>>
       ELSE /\ rd' = [rd EXCEPT ![i].file = NoFile]
            /\ links' = ReaderRemove(rd[i])
    /\ res' = [res EXCEPT ![i] = [NoResult EXCEPT !.op = "Close"]]
    /\ UNCHANGED <<inodes, nextPath, writer, appended, yielded>>
    /\ UNCHANGED <<txVars, journalVars, watchVars, runVars, readVars>>
    /\ UNCHANGED <<again, ret, closed, closing, atClose, endReq, restarts, active, serialVars, labelVars, objVars, detailVars, shutVars, cerr, beginRet, cop, lockVars, uq, endVars, au, itin>>

\* List.Close, Writer.Close: the file is closed and the writer's path removed.
ListClose ==
    /\ IF writer.file # NoFile
       THEN /\ links' = Remove(writer.path)
            /\ writer' = [writer EXCEPT !.file = NoFile]
       ELSE UNCHANGED <<links, writer>>
    /\ UNCHANGED <<inodes, nextPath, rd, res, appended, yielded>>
    /\ UNCHANGED <<txVars, journalVars, watchVars, runVars, readVars>>
    /\ UNCHANGED <<again, ret, closed, closing, atClose, endReq, restarts, active, serialVars, labelVars, objVars, detailVars, shutVars, cerr, beginRet, cop, lockVars, uq, endVars, au, itin>>

\* ------------------------------------------------------------ detail level

\* Field.Detail: the first n below MaxDetail with option d<n>, else 0 for a
\* primary or natural key and 1 for another field.
FieldDetail(tag) ==
    IF \E n \in 0..(MaxDetail - 1) : tag.d = n
    THEN CHOOSE n \in 0..(MaxDetail - 1) : tag.d = n
    ELSE IF "pk" \in tag.opts \/ "key" \in tag.opts THEN 0 ELSE 1

\* Field.MatchDetail.
MatchDetail(tag, level) == FieldDetail(tag) <= level

\* ListOptions.Fields: the fields filtered by detail level.
OptionsFields(detail) == {f \in DetailFields : MatchDetail(dtag[f], detail)}

\* The type is declared with its tags.
DeclareFields(tags) ==
    /\ dtag = [f \in DetailFields |-> NoTag]
    /\ ~dlist.done
    /\ tags # dtag
    /\ dtag' = tags
    /\ UNCHANGED dlist
    /\ UNCHANGED <<txVars, journalVars, watchVars, runVars, readVars>>
    /\ UNCHANGED <<again, ret, closed, closing, atClose, endReq, restarts, active, serialVars, labelVars, objVars, listVars, shutVars, cerr, beginRet, cop, lockVars, uq, endVars, au, itin>>

\* Table.List and Table.Find with options.Detail: the fields of
\* options.Fields() are selected and scanned into a new model, the others
\* keep their zero value.
TableList(detail) ==
    /\ dlist' = [done |-> TRUE, detail |-> detail,
                 populated |-> OptionsFields(detail)]
    /\ UNCHANGED dtag
    /\ UNCHANGED <<txVars, journalVars, watchVars, runVars, readVars>>
    /\ UNCHANGED <<again, ret, closed, closing, atClose, endReq, restarts, active, serialVars, labelVars, objVars, listVars, shutVars, cerr, beginRet, cop, lockVars, uq, endVars, au, itin>>

\* -------------------------------------------------------------------- reads

\* A variant of TableGet that also sees the rows of open transactions.
TableGetDirty(rec) ==
    rec \in rows \/ \E t \in Txs : txState[t] = "open" /\ rec \in txRows[t]

\* Table{session.db}.Get on a reader session: the committed row, or NotFound.
TableGet(rec) == rec \in rows

\* Client.Get: a reader session is taken, the row is read, the session is
\* returned.
GetBegin(r) ==
    /\ rpc[r] = "idle"
    /\ readers > 0
    /\ readers' = readers - 1
    /\ rpc' = [rpc EXCEPT ![r] = "reading"]
    /\ UNCHANGED got
    /\ UNCHANGED <<txVars, journalVars, watchVars, runVars>>
    /\ UNCHANGED extraVars

GetEnd(r, rec) ==
    /\ rpc[r] = "reading"
    /\ got' = [got EXCEPT ![r] = [rec |-> rec, found |-> TableGet(rec)]]
    /\ readers' = readers + 1
    /\ rpc' = [rpc EXCEPT ![r] = "idle"]
    /\ UNCHANGED <<txVars, journalVars, watchVars, runVars>>
    /\ UNCHANGED extraVars

\* ------------------------------------------------------------ specification

\* The steps of the task that owns transaction t.
TxStep(t) ==
    \/ Begin(t)
    \/ \E wr \in Writes :
        \/ wr.action = Created /\ TxInsert(t, wr.rec)
        \/ wr.action = Updated /\ TxUpdate(t, wr.rec)
        \/ wr.action = Deleted /\ TxDelete(t, wr.rec)
    \/ Commit(t)
    \/ CommitReturn(t)
    \/ report(t)
    \/ TxEnd(t)

\* The steps of the task that subscribes watch w and later ends it.
WatchStep(w) ==
    \/ \E kind \in WatchKinds, snap \in BOOLEAN : ClientWatch(w, kind, snap)
    \/ blockWriting(w)
    \/ ReadSnapshot(w)
    \/ JournalWatch(w)
    \/ Start(w)
    \/ ClientWatchReturn(w)
    \/ JournalEnd(w)

\* The steps of the dispatch goroutine of watch w.
RunStep(w) == RunNext(w) \/ RunRecv(w)

ReadStep(r) ==
    \/ GetBegin(r)
    \/ \E rec \in Recs : GetEnd(r, rec)

\* Transactions, one watch and its dispatch goroutine.
Next ==
    \/ \E t \in Txs : TxStep(t)
    \/ WatchStep("w1")
    \/ RunStep("w1")

Spec == Init /\ [][Next]_vars

\* Transactions and reads alone.
NextTx ==
    \/ \E t \in Txs : TxStep(t)
    \/ \E t \in Txs : CommitAgain(t) \/ EndAgain(t)
    \/ \E t \in Txs, rec \in Recs : TxDeleteAbsent(t, rec)
    \/ \E r \in Readers : ReadStep(r)

SpecTx == Init /\ [][NextTx]_vars

\* Transactions that insert one record of the watched kind, and two watches
\* without snapshot, each with its dispatch goroutine.
FanRec == [kind |-> "A", key |-> 1]

NextFan ==
    \/ \E t \in Txs :
        \/ Begin(t)
        \/ TxInsert(t, FanRec)
        \/ Commit(t)
        \/ CommitReturn(t)
        \/ report(t)
    \/ \E w \in Watches :
        \/ ClientWatch(w, "A", FALSE)
        \/ JournalWatch(w)
        \/ Start(w)
        \/ ClientWatchReturn(w)
        \/ RunStep(w)

SpecFan == Init /\ [][NextFan]_vars


\* The steps of Client.Watch without snapshot, for both watches.
SubscribeStep(w) ==
    \/ ClientWatch(w, "A", FALSE)
    \/ JournalWatch(w)
    \/ Start(w)
    \/ ClientWatchReturn(w)

\* One transaction that inserts, two watches that are ended by their owner or
\* by the close of the journal.
NextClose ==
    \/ \E t \in {1} :
        \/ Begin(t)
        \/ TxInsert(t, FanRec)
        \/ Commit(t)
        \/ CommitReturn(t)
        \/ report(t)
    \/ \E w \in Watches : SubscribeStep(w) \/ JournalEnd(w) \/ RunStep(w)
    \/ JournalClose
    \/ CloseEnd

SpecClose == Init /\ [][NextClose]_vars

\* Every task that has begun a call goes on to its end, and the dispatch
\* goroutines are scheduled.
FairClose ==
    /\ SpecClose
    /\ \A w \in Watches : WF_vars(RunStep(w))
    /\ \A w \in Watches : WF_vars(JournalWatch(w) \/ Start(w) \/ ClientWatchReturn(w))
    /\ WF_vars(CloseEnd)

\* The life of one watch: subscribed, ended by its owner, started again,
\* beside transactions that insert.
NextLife ==
    \/ \E t \in Txs :
        \/ Begin(t)
        \/ TxInsert(t, FanRec)
        \/ Commit(t)
        \/ CommitReturn(t)
        \/ report(t)
    \/ SubscribeStep("w1")
    \/ JournalEnd("w1")
    \/ StartAgain("w1")
    \/ RunStep("w1")

SpecLife == Init /\ [][NextLife]_vars

\* Transactions that insert, one watch without snapshot, and the calls of
\* its handler as steps of their own.
NextCb ==
    \/ \E t \in Txs :
        \/ Begin(t)
        \/ \E rec \in Recs : TxInsert(t, rec)
        \/ Commit(t)
        \/ CommitReturn(t)
        \/ reportEnter(t)
        \/ reportLeave(t)
    \/ SubscribeStep("w1")
    \/ RunEnter("w1")
    \/ RunLeave("w1")
    \/ RunSkip("w1")
    \/ RunDone("w1")
    \/ RunRecv("w1")

SpecCb == Init /\ [][NextCb]_vars

\* The caller's transaction, a watch whose handler writes, and a second
\* watch that subscribes with a snapshot and so asks for the writer slot.
CallerStep ==
    \/ Begin(1)
    \/ \E rec \in Recs : TxInsert(1, rec)
    \/ Commit(1)
    \/ CommitReturn(1)
    \/ report(1)

MutatingStep(w) ==
    \/ RunEnter(w)
    \/ HandlerStep(w)
    \/ HandlerLeave(w)
    \/ RunSkip(w)
    \/ RunDone(w)
    \/ RunRecv(w)

SnapshotStep(w) ==
    \/ ClientWatch(w, "A", TRUE)
    \/ blockWriting(w)
    \/ ReadSnapshot(w)
    \/ JournalWatch(w)
    \/ Start(w)
    \/ ClientWatchReturn(w)

NextMut ==
    \/ CallerStep
    \/ SubscribeStep("w1")
    \/ MutatingStep("w1")
    \/ SnapshotStep("w2")
    \/ RunStep("w2")

SpecMut == Init /\ [][NextMut]_vars

\* A task that can go on does go on.
FairMut ==
    /\ SpecMut
    /\ WF_vars(Commit(1) \/ CommitReturn(1) \/ report(1))
    /\ WF_vars(MutatingStep("w1"))
    /\ WF_vars(SnapshotStep("w2"))
    /\ WF_vars(RunStep("w2"))

\* Tasks that ask for watch ids and event ids at the same time.
NextSerial ==
    \E p \in SerialTasks :
        \/ \E key \in {WatchSerial, EventSerial} : SerialCall(p, key)
        \/ SerialLock(p)
        \/ SerialRead(p)
        \/ SerialWrite(p)
        \/ SerialReturn(p)

SpecSerial == Init /\ [][NextSerial]_vars

\* Transactions that insert, update and delete labeled records.
NextLabel ==
    \/ LabelBegin
    \/ \E rec \in Recs, labels \in LabelMaps : LabelTxInsert(rec, labels)
    \/ \E rec \in Recs, labels \in LabelMaps : LabelTxUpdate(rec, labels)
    \/ \E rec \in Recs : LabelTxDelete(rec)
    \/ LabelCommit
    \/ LabelEnd

SpecLabel == Init /\ [][NextLabel]_vars

\* Insert, Update, Get and Delete of one object.
NextObj ==
    \/ \E m \in Objects : ObjInsert(m)
    \/ \E m \in Objects : ObjUpdate(m)
    \/ ObjGet
    \/ ObjDelete

SpecObj == Init /\ [][NextObj]_vars

\* One list, its appends and two iterators over it.
NextList ==
    \/ \E kind \in ObjectKinds : ListAppend(kind)
    \/ ListClose
    \/ \E i \in Iterators :
        \/ ListIter(i)
        \/ ReaderNext(i)
        \/ \E kind \in ObjectKinds : ReaderNextWith(i, kind)
        \/ ReaderLen(i)
        \/ ReaderClose(i)

SpecList == Init /\ [][NextList]_vars

\* A type with tagged fields and lists of it at every detail level.
NextDetail ==
    \/ \E tags \in [DetailFields -> DetailTags] : DeclareFields(tags)
    \/ \E detail \in 0..MaxDetail : TableList(detail)

SpecDetail == Init /\ [][NextDetail]_vars

\* Client.Close called again and again, beside the watches and their
\* dispatch goroutines.
NextShut ==
    \/ \E w \in Watches : SubscribeStep(w) \/ RunStep(w)
    \/ ClientClose
    \/ CloseEnd
    \/ PoolClose
    \/ \E delete \in BOOLEAN : ClientCloseReturn(delete)

SpecShut == Init /\ [][NextShut]_vars

\* Transactions that insert one record, beside one watch, with or without a
\* snapshot, that its owner may end.
NextErr ==
    \/ \E t \in Txs :
        \/ Begin(t)
        \/ TxInsert(t, FanRec)
        \/ Commit(t)
        \/ CommitReturn(t)
        \/ report(t)
    \/ \E snap \in BOOLEAN : ClientWatch("w1", "A", snap)
    \/ blockWriting("w1")
    \/ ReadSnapshot("w1")
    \/ JournalWatch("w1")
    \/ Start("w1")
    \/ ClientWatchReturn("w1")
    \/ JournalEnd("w1")
    \/ RunStep("w1")

SpecErr == Init /\ [][NextErr]_vars

\* One transaction that inserts and updates a record, with or without its
\* row, beside the transaction on labeled records.
NextAbsent ==
    \/ \E t \in {1} :
        \/ Begin(t)
        \/ TxInsert(t, FanRec)
        \/ TxUpdate(t, FanRec)
        \/ TxUpdateAbsent(t, FanRec)
        \/ Commit(t)
        \/ CommitReturn(t)
        \/ report(t)
        \/ TxEnd(t)
    \/ LabelBegin
    \/ \E labels \in LabelMaps : LabelTxInsert(FanRec, labels)
    \/ \E labels \in LabelMaps : LabelTxUpdate(FanRec, labels)
    \/ LabelCommit
    \/ LabelEnd

SpecAbsent == Init /\ [][NextAbsent]_vars

\* The write operations of the client, one after the other, each with its
\* transaction.
NextClient ==
    \E t \in Txs :
        \/ \E op \in ClientOps : ClientCall(t, op)
        \/ cop[t].pos = "begin" /\ (Begin(t) \/ BeginFail(t))
        \/ AtOp(t, {"Insert"}) /\ \E rec \in Recs : TxInsert(t, rec)
        \/ AtOp(t, {"Update"}) /\
                \E rec \in Recs : TxUpdate(t, rec) \/ TxUpdateAbsent(t, rec)
        \/ AtOp(t, {"Delete"}) /\
                \E rec \in Recs : TxDelete(t, rec) \/ TxDeleteAbsent(t, rec)
        \/ TxExecute(t)
        \/ cop[t].pos = "begin" /\ issued[t] # <<>> /\ Commit(t)
        \/ cop[t].pos = "begin" /\ CommitReturn(t)
        \/ cop[t].pos = "begin" /\ report(t)
        \/ cop[t].pos = "begin" /\ ret[t] # "none" /\ TxEnd(t)
        \/ ClientReturn(t)
        \/ ClientPanic(t)

SpecClient == Init /\ [][NextClient]_vars

\* Transactions that insert, and one watch whose handler is a WatchWriter:
\* a send that fails ends the watch. The steps that take Journal.mutex wait
\* for it.
NextLock ==
    \/ \E t \in Txs :
        \/ Begin(t)
        \/ TxInsert(t, FanRec)
        \/ Commit(t)
        \/ CommitReturn(t)
        \/ ~JournalLocked /\ reportEnter(t)
        \/ NotEnding(t) /\ reportLeave(t)
    \/ ClientWatch("w1", "A", FALSE)
    \/ ~JournalLocked /\ JournalWatch("w1")
    \/ Start("w1")
    \/ ClientWatchReturn("w1")
    \/ RunRecv("w1")
    \/ RunEnter("w1")
    \/ NotEnding(RunTask) /\ RunLeave("w1")
    \/ RunDone("w1")
    \/ \E p \in Txs \cup {RunTask} : HandlerSendFails(p, "w1")
    \/ \E p \in Txs \cup {RunTask} : HandlerEnd(p, "w1")

SpecLock == Init /\ [][NextLock]_vars

\* Inserts and deletes in a table with a unique group.
NextUq ==
    \/ \E m \in UModels : UqTxInsert(m)
    \/ \E pk \in UPks : UqTxDelete(pk)

SpecUq == Init /\ [][NextUq]_vars

\* One watch that its owner ends and starts any number of times, beside the
\* close of the journal and transactions that insert.
NextEnd ==
    \/ \E t \in Txs :
        \/ Begin(t)
        \/ TxInsert(t, FanRec)
        \/ Commit(t)
        \/ CommitReturn(t)
        \/ report(t)
    \/ SubscribeStep("w1")
    \/ WatchEnd("w1")
    \/ StartAgain("w1")
    \/ RunStep("w1")
    \/ JournalClose
    \/ CloseEnd

SpecEnd == Init /\ [][NextEnd]_vars

\* Requests with and without a bearer token, over time.
NextAuth ==
    \/ \E token \in Tokens \cup {""} : \E review \in Reviews :
          Authenticate(token, review)
    \/ Tick

SpecAuth == Init /\ [][NextAuth]_vars

\* Pipelines of up to MaxSteps steps and the calls of Next on them.
NextItinerary ==
    \/ \E step \in Steps : AddStep(step)
    \/ \E name \in StepNames \cup {"c"} : \E allowed \in SUBSET FlagBits :
          ItineraryNext(name, allowed)

SpecItinerary == Init /\ [][NextItinerary]_vars

\* Transactions whose Begin may fail.
NextBegin ==
    \E t \in Txs :
        \/ Begin(t)
        \/ BeginFail(t)
        \/ \E rec \in Recs : TxInsert(t, rec)
        \/ Commit(t)
        \/ CommitReturn(t)
        \/ report(t)
        \/ TxEnd(t)

SpecBegin == Init /\ [][NextBegin]_vars

\* The task inside Client.Watch goes on to its return, and the dispatch
\* goroutine of the watch is scheduled as long as it can run.
FairWatch ==
    /\ SpecErr
    /\ WF_vars(RunStep("w1"))
    /\ WF_vars(JournalWatch("w1") \/ Start("w1") \/ ClientWatchReturn("w1"))

\* ------------------------------------------------------------------- claims

DataCbs == {Created, Updated, Deleted}

\* Position of transaction t in the order of the real commits, 0 if none.
CommitIndex(t) == IndexOf(commitOrder, t)

\* The callbacks of watch w for live events, in the order they were made.
LiveCalls(w) == SelectSeq(calls[w], LAMBDA c : c.live /\ c.cb \in DataCbs)

\* The callbacks of watch w for the live events of transaction t.
LiveCallsOf(w, t) == SelectSeq(LiveCalls(w), LAMBDA c : c.ev.tx = t)

\* The events of a list that watch w matches.
Matching(w, list) == SelectSeq(list, LAMBDA e : Match(w, e))

\* C1: transactions reach the journal in the order of their real commits:
\* of two transactions whose lists were both handed to the journal, the one
\* handed over first also committed first.
C1_ReportInCommitOrder ==
    \A i, j \in 1..Len(reportOrder) :
        i < j => CommitIndex(reportOrder[i]) < CommitIndex(reportOrder[j])

\* C2: a watch subscribed with a snapshot sees no change twice and misses
\* none: no live event comes from a transaction that committed before the
\* snapshot was read, and once the watch has drained its queue every
\* transaction committed after the snapshot read and reported since has been
\* delivered (unless an Error was reported to the watch or a read failed).
C2_NoDuplicate(w) ==
    \A i \in 1..Len(LiveCalls(w)) :
        CommitIndex(LiveCalls(w)[i].ev.tx) > snapAt[w]

C2_NoneMissed(w) ==
    ( /\ dpc[w] = "recv"
      /\ queue[w] = <<>>
      /\ w \in Range(watchList)
      /\ count[w] = Len(finished[w])
      /\ \A i \in 1..Len(calls[w]) : calls[w][i].cb # Error )
    => \A t \in Txs :
        (CommitIndex(t) > snapAt[w] /\ txState[t] = "closed")
        => LiveCallsOf(w, t) =
             [i \in 1..Len(Matching(w, reported[t])) |->
                Dispatch(Matching(w, reported[t])[i], TRUE)]

\* C2: a watch subscribed with a snapshot gets every committed change once,
\* in the snapshot or as a live event: none twice and none missed.
C2_SnapshotThenLive ==
    \A w \in Watches :
        (wsnap[w] /\ wpc[w] \in {"return", "watching"})
        => C2_NoDuplicate(w) /\ C2_NoneMissed(w)

\* Positions in calls[w] of the callbacks named cb.
CallsOf(w, cb) == {i \in 1..Len(calls[w]) : calls[w][i].cb = cb}

\* Positions in calls[w] of the callbacks for snapshot records and for live
\* events.
SnapshotCreated(w) ==
    {i \in 1..Len(calls[w]) : calls[w][i].cb \in DataCbs /\ ~calls[w][i].live}
LiveData(w) ==
    {i \in 1..Len(calls[w]) : calls[w][i].cb \in DataCbs /\ calls[w][i].live}

\* C3: a started watch gets Parity exactly once: never twice, after every
\* Created callback for a snapshot record (all of them, when the snapshot was
\* read without error), before every callback for a live event, and
\* eventually, whether or not the snapshot is empty or requested and whether
\* or not a transaction commits afterwards.
C3_ParityOrder(w) ==
    /\ Cardinality(CallsOf(w, Parity)) <= 1
    /\ \A i \in SnapshotCreated(w) : \A j \in CallsOf(w, Parity) : i < j
    /\ \A i \in LiveData(w) : \E j \in CallsOf(w, Parity) : j < i
    /\ (CallsOf(w, Parity) # {} /\ 0 \in Range(finished[w]))
        => Cardinality(SnapshotCreated(w)) = Len(snapshot[w])

FairSpec == Spec /\ WF_vars(RunStep("w1"))

\* Transactions whose real commit succeeded.
Committed == Range(commitOrder)

\* The iterators watch w holds: queued, or being drained.
Held(w) == Range(queue[w]) \cup (IF dpc[w] = "batch" THEN {cur[w]} ELSE {})

\* C4: staged events reach a watch only through a successful commit: every
\* iterator a watch holds and every callback made for a transaction belong to
\* a transaction that committed and is past its commit; an open transaction
\* and one that was ended have none, and a snapshot holds committed rows only.
C4_OnlyCommitted ==
    \A w \in Watches :
        /\ \A b \in Held(w) :
            b.live => b.tx \in Committed /\ txState[b.tx] = "closed"
        /\ \A i \in 1..Len(calls[w]) :
            calls[w][i].ev.tx # 0 =>
                /\ calls[w][i].ev.tx \in Committed
                /\ txState[calls[w][i].ev.tx] = "closed"
        /\ \A i \in 1..Len(snapshot[w]) :
            \E t \in Committed : \E k \in 1..Len(issued[t]) :
                /\ issued[t][k].action = Created
                /\ issued[t][k].rec.kind = snapshot[w][i].kind
                /\ issued[t][k].rec.key = snapshot[w][i].key

\* A transaction was ended after a write of the watched kind while the watch
\* was registered, and a later transaction has been delivered to the watch.
C4_Witness ==
    \E w \in Watches : \E t1, t2 \in Txs :
        /\ txState[t1] = "ended"
        /\ \E k \in 1..Len(issued[t1]) : issued[t1][k].rec.kind = wkind[w]
        /\ t1 < t2
        /\ LiveCallsOf(w, t2) # <<>>
        /\ ~wsnap[w]
        /\ snapAt[w] = 0
        /\ CallsOf(w, Started) # {}

\* Phase of a callback in the handler contract
\* Started, snapshot Created*, Parity, live Created|Updated|Deleted*, End.
Phase(c) ==
    CASE c.cb = Started -> 0
      [] c.cb \in DataCbs /\ ~c.live -> 1
      [] c.cb = Parity -> 2
      [] c.cb \in DataCbs /\ c.live -> 3
      [] c.cb = End -> 4
      [] OTHER -> 5

\* C5: the callbacks of a watch follow Started, snapshot Created, Parity,
\* live Created/Updated/Deleted, End; Started is the first callback and End
\* the last, and nothing but Error is left out of the sequence.
C5_Sequence(w) ==
    LET cs == SelectSeq(calls[w], LAMBDA c : c.cb # Error) IN
    /\ \A i, j \in 1..Len(cs) : i < j => Phase(cs[i]) <= Phase(cs[j])
    /\ \A cb \in {Started, Parity, End} : Cardinality(CallsOf(w, cb)) <= 1
    /\ \A i \in 1..Len(cs) : cs[i].cb \in DataCbs => \E j \in 1..Len(cs) : cs[j].cb = Started
    /\ \A i \in 1..Len(cs) : Phase(cs[i]) >= 3 => \E j \in 1..Len(cs) : cs[j].cb = Parity

C5_StartedFirstEndLast(w) ==
    /\ calls[w] # <<>> => calls[w][1].cb = Started
    /\ \A i \in CallsOf(w, End) : i = Len(calls[w])

WriteOf(c) == [action |-> c.cb, rec |-> [kind |-> c.ev.kind, key |-> c.ev.key]]

\* C6: a watch gets no callback for an event of another kind, and of a
\* transaction that held events of several kinds and was read to the end it
\* got every event of its own kind.
C6_KindFilter ==
    \A w \in Watches :
        /\ \A i \in 1..Len(calls[w]) :
            calls[w][i].cb \in DataCbs => calls[w][i].ev.kind = wkind[w]
        /\ \A t \in Txs :
            t \in Range(finished[w]) =>
                {e \in Range(reported[t]) : e.kind = wkind[w]}
                    = {LiveCallsOf(w, t)[i].ev : i \in 1..Len(LiveCallsOf(w, t))}

C6_Witness ==
    \E w \in Watches : \E t \in Txs :
        /\ t \in Range(finished[w])
        /\ \E e \in Range(reported[t]) : e.kind = wkind[w]
        /\ \E e \in Range(reported[t]) : e.kind # wkind[w]

\* C9: the events of one transaction are delivered in the order of the
\* caller's Insert/Update/Delete calls on it.
C9_CallOrder ==
    \A w \in Watches : \A t \in Txs :
        t \in Range(finished[w]) =>
            [i \in 1..Len(LiveCallsOf(w, t)) |-> WriteOf(LiveCallsOf(w, t)[i])]
                = SelectSeq(issued[t], LAMBDA wr : wr.rec.kind = wkind[w])

C9_Witness ==
    \E w \in Watches : \E t \in Txs :
        /\ t \in Range(finished[w])
        /\ Len(LiveCallsOf(w, t)) >= 2
        /\ LiveCallsOf(w, t)[1].cb # LiveCallsOf(w, t)[2].cb

Full(w) == ~qclosed[w] /\ Len(queue[w]) >= QueueCap

\* C7: a commit that fans out to a watch with a full queue does not block:
\* the report step can always be taken, it leaves the queue of that watch as
\* it was, calls Error on its handler once, and the commit returns.
C7_Step ==
    \A t \in Txs :
        (txState[t] = "report" /\ txState'[t] # "report" /\ staged[t] # <<>>) =>
            /\ txState'[t] = "closed"
            /\ \A w \in Range(watchList) :
                Full(w) =>
                    /\ queue'[w] = queue[w]
                    /\ calls'[w] = Append(calls[w], ErrorCall(t, FullQueue))

\* C7: the committer never blocks on a full queue; it drops the iterator for
\* that watch, calls Error once and returns.
C7_Overflow ==
    /\ [](\A t \in Txs : txState[t] = "report" => ENABLED report(t))
    /\ [][C7_Step]_vars

C7_Witness ==
    \E w \in Watches : \E t \in Txs :
        /\ txState[t] = "closed"
        /\ \E i \in 1..Len(calls[w]) : calls[w][i] = ErrorCall(t, FullQueue)
        /\ \A b \in Held(w) : b.tx # t

\* C8: when the list of a transaction is handed to the journal, every
\* registered watch whose queue has room gets its iterator, whatever the state
\* of the other watches, and a pass of one watch's dispatch goroutine, failed
\* read included, leaves the other watches as they were.
C8_Step ==
    /\ \A t \in Txs :
        (txState[t] = "report" /\ txState'[t] # "report" /\ staged[t] # <<>>) =>
            \A w \in Range(watchList) :
                (~qclosed[w] /\ ~Full(w)) =>
                    /\ queue'[w] = Append(queue[w], Iter(t, staged[t]))
                    /\ calls'[w] = calls[w]
    /\ \A w \in Watches :
        (dpc[w] = "batch" /\ dpc'[w] = "recv") =>
            \A o \in Watches \ {w} :
                /\ queue'[o] = queue[o]
                /\ calls'[o] = calls[o]
                /\ cur'[o] = cur[o]
                /\ dpc'[o] = dpc[o]

\* C8: per-watch isolation holds at every step.
C8_Isolation == [][C8_Step]_vars

\* A list was dropped for the first watch, its queue being full, or the first
\* watch failed to read it, and the second watch got all of it.
C8_Witness ==
    \E t \in Txs :
        /\ \E i \in 1..Len(calls["w1"]) : calls["w1"][i] = ErrorCall(t, FullQueue)
        /\ t \in Range(finished["w2"])
        /\ LiveCallsOf("w2", t) # <<>>

\* The transactions that hold a writer session.
Open == {t \in Txs : txState[t] \in {"open", "committed", "failed"}}

\* C10: at most one transaction is open at a time, and a read can take a
\* reader session while a transaction is open.
C10_OneWriter ==
    /\ Cardinality(Open) <= 1
    /\ \A r \in Readers :
        (Open # {} /\ rpc[r] = "idle") => ENABLED GetBegin(r)

\* A read is under way while the second transaction is open with a write.
C10_Witness ==
    \E r \in Readers :
        /\ rpc[r] = "reading"
        /\ txState[2] = "open"
        /\ staged[2] # <<>>
        /\ txState[1] = "closed"

\* The rows after the writes of a transaction, made on the rows before it.
RECURSIVE Apply(_, _)
Apply(rs, ws) ==
    IF ws = <<>> THEN rs
    ELSE Apply(CASE Head(ws).action = Created -> rs \cup {Head(ws).rec}
                 [] Head(ws).action = Deleted -> rs \ {Head(ws).rec}
                 [] OTHER -> rs,
               Tail(ws))

\* The rows after the first n committed transactions, in commit order.
RECURSIVE Replay(_)
Replay(n) == IF n = 0 THEN {} ELSE Apply(Replay(n - 1), issued[commitOrder[n]])

\* C11: a read made outside the transactions finds a record exactly when the
\* committed transactions, and they alone, left it there: an insert of an
\* open transaction is not found, it is found once the transaction has
\* committed, and it is not found once the transaction was ended.
C11_Step ==
    \A r \in Readers :
        (rpc[r] = "reading" /\ rpc'[r] = "idle") =>
            (got'[r].found <=> got'[r].rec \in Replay(Len(commitOrder)))

C11_ReadCommitted == [][C11_Step]_vars

\* A record inserted by a transaction that was ended was read as NotFound
\* while the second transaction, which inserted it again, was open.
C11_Witness ==
    \E r \in Readers :
        /\ txState[1] = "ended"
        /\ txState[2] = "open"
        /\ got[r].rec \in txRows[2]
        /\ \E k \in 1..Len(issued[1]) :
            issued[1][k] = [action |-> Created, rec |-> got[r].rec]
        /\ ~got[r].found
        /\ rpc[r] = "idle"

\* C12: a Commit or End called on a transaction that was committed or ended
\* before returns nil and changes nothing: no row, no writer slot, nothing
\* handed to the journal, no callback, however many such calls are made.
C12_Step ==
    \A t \in Txs :
        again'[t] # again[t] =>
            /\ ret'[t] = "nil"
            /\ UNCHANGED <<txVars, journalVars, watchVars, runVars, readVars>>

C12_NoOp == [][C12_Step]_vars

\* A committed transaction and an ended one each got two further calls, and
\* a third transaction could still not have begun twice over.
C12_Witness ==
    /\ txState[1] = "closed"
    /\ 1 \in Range(commitOrder)
    /\ txState[2] = "ended"
    /\ again[1] = MaxAgain
    /\ again[2] = MaxAgain
    /\ writers = NWriter

\* A watch has come to its end: handler.End() was called, the watch is not
\* alive, nothing is left in its queue and the journal does not list it.
Stopped(w) ==
    /\ ~Alive(w)
    /\ CallsOf(w, End) # {}
    /\ queue[w] = <<>>
    /\ w \notin Range(watchList)

\* An iterator leaves a queue only into the hands of the dispatch goroutine.
DequeuedOnly ==
    \A w \in Watches :
        Len(queue'[w]) < Len(queue[w]) =>
            /\ cur'[w] = Head(queue[w])
            /\ queue'[w] = Tail(queue[w])
            /\ dpc'[w] = "batch"

C14_Step ==
    \A w \in Watches :
        ~Alive(w) => (~Alive(w)' /\ calls'[w] = calls[w])

C14_StoppedIsTerminal == [][C14_Step]_vars

\* C15: the callbacks of one handler are made one at a time: no task is
\* inside a callback of a handler while another task is, the Error of a full
\* queue included.
C15_Serial == \A w \in Watches : Cardinality(active[w]) <= 1

\* The transactions a handler runs.
HandlerTxs == {t \in Txs : t > 1}

\* A transaction that is between Begin and the return of Commit.
InFlight(t) == txState[t] \in {"open", "committed", "failed", "report"}

\* The events of transaction t in the list handed to the journal.
UpdatedBy(t) == {e \in Range(reported[t]) : e.action = Updated /\ e.tx = t}

\* Watch w has the event of transaction t, has been called for it, or was
\* told that it was dropped.
Reached(w, t) ==
    \/ \E b \in Held(w) : b.tx = t /\ \E e \in Range(b.items) : e.action = Updated
    \/ \E i \in 1..Len(calls[w]) :
        /\ calls[w][i].cb = Updated
        /\ calls[w][i].ev.tx = t
    \/ \E i \in 1..Len(calls[w]) : calls[w][i] = ErrorCall(t, FullQueue)

IssuedFor(key) ==
    LET l == SelectSeq(idlog, LAMBDA x : x.key = key)
    IN [i \in 1..Len(l) |-> l[i].sn]

\* C17: the ids issued for events are 1, 2, 3, ... in the order they are
\* issued, so each is greater than all before it and none is issued twice,
\* also when tasks ask at the same time; the ids of watches are so too, from
\* a counter of their own.
C17_SerialIncreasing ==
    \A key \in {WatchSerial, EventSerial} :
        /\ IssuedFor(key) = [i \in 1..Len(IssuedFor(key)) |-> i]
        /\ serial[key] = Len(IssuedFor(key))

\* Ids of both kinds have been issued, event ids to both tasks, and a task
\* waits for the mutex that another holds after taking an id for the same key.
C17_Witness ==
    /\ IssuedFor(EventSerial) = <<1, 2>>
    /\ IssuedFor(WatchSerial) = <<1>>
    /\ \E i, j \in 1..Len(idlog) :
        /\ idlog[i].key = EventSerial
        /\ idlog[j].key = EventSerial
        /\ idlog[i].task # idlog[j].task
    /\ \E p, q \in SerialTasks :
        /\ spc[p] = "unlock"
        /\ spc[q] = "lock"
        /\ skey[p] = skey[q]

\* The labels in the Label rows with the (Kind, Parent) of rec.
RowLabels(table, rec) ==
    {[name |-> x.name, value |-> x.value] :
        x \in {y \in table : y.kind = rec.kind /\ y.parent = rec.key}}

\* C18: the committed Label rows of a labeled record are exactly the Labels()
\* of its last committed insert or update, and there is none once the record
\* is deleted.
C18_LabelsFollowRecord ==
    \A rec \in Recs :
        RowLabels(labelRows, rec) = modelLabels[rec].labels

\* A step of Tx.Delete on t for a model whose row is absent.
DeleteOfAbsent(t) ==
    /\ txState[t] = "open"
    /\ txRows[t] # Recs
    /\ ret'[t] # ret[t]

\* C19: Delete of a record whose row is absent returns no error, changes no
\* row and stages no event.
C19_Step ==
    \A t \in Txs :
        DeleteOfAbsent(t) =>
            /\ ret'[t] = "nil"
            /\ UNCHANGED <<rows, txRows, staged, issued>>

C19_DeleteAbsentSucceeds == [][C19_Step]_vars

\* The last write was a successful Update and a Get has followed it.
GotAfterUpdate == objLast = "update" /\ objB.found

\* C20 as stated: after a successful Update(m), Get returns a record equal
\* to m in every non-virtual field.
C20_UpdateRoundTrip ==
    GotAfterUpdate => \A f \in RealFields : objB.m[f] = objA.m[f]

\* What a field of m is read back as: a nil slice comes back empty.
ReadBack(f, v) == IF f = "Slice" /\ v = "nil" THEN "empty" ELSE v

\* The fields tagged key, const or virtual, and the fields with none of these
\* tags other than the primary key.
KeptFields == {f \in Fields : Key(f) \/ hasOpt(f, "const") \/ Virtual(f)}
WrittenFields == {f \in Fields \ KeptFields : ~Pk(f)}

\* An Update step leaves alone the columns of the key, const and virtual
\* fields.
C20_Step ==
    (objLast' = "update" /\ objRow' # objRow) =>
        \A f \in KeptFields : objRow'.cols[f] = objRow.cols[f]

\* C20: after a successful Update(m), Get returns a record equal to m in every
\* field that is not pk, key, const or virtual (a nil slice read back as
\* empty) and in the primary key; the key and const fields keep the values of
\* the row, whatever m holds.
C20_UpdateRoundTripMutable ==
    /\ [](GotAfterUpdate =>
            /\ \A f \in WrittenFields : objB.m[f] = ReadBack(f, objA.m[f])
            /\ \A f \in KeptFields : objB.m[f] = Push(f, objRow.cols[f])
            /\ objB.m["PK"] = objA.m["PK"])
    /\ [][C20_Step]_vars

\* Get after an Update whose m differs from the row in a const field and in a
\* mutable one.
C20_Witness ==
    /\ GotAfterUpdate
    /\ objB.m["Fixed"] # objA.m["Fixed"]
    /\ objB.m["ID"] # objA.m["ID"]
    /\ objB.m["Name"] = "Larry"
    /\ objB.m["Rev"] = 1 + 1

\* Iterator i is a Reader that has not failed and whose file can be read, over
\* a list that was not closed and appended to again.
Readable(i) ==
    /\ rd[i].made
    /\ ~rd[i].empty
    /\ rd[i].error = "nil"
    /\ rd[i].file # NoFile \/ FileAt(rd[i].path) # NoFile
    /\ Len(inodes) <= 1

\* A call on iterator i has returned in this step.
Returned(i, ops) ==
    /\ res'[i].op \in ops
    /\ res'[i] # res[i] \/ rd'[i] # rd[i]

\* A Next or NextWith that returns no error gives the object after those the
\* iterator gave before with has-next true, and has-next false after the last.
C21_NextStep ==
    \A i \in Iterators :
        (Returned(i, {"Next", "NextWith"}) /\ Readable(i) /\ res'[i].err = "nil") =>
            IF Len(yielded[i]) < Len(appended)
            THEN /\ res'[i].hasNext
                 /\ res'[i].object = appended[Len(yielded[i]) + 1]
            ELSE /\ ~res'[i].hasNext
                 /\ res'[i].object = NilObject

\* Len gives the number appended and leaves the position of the iterator.
C21_LenStep ==
    \A i \in Iterators :
        (Returned(i, {"Len"}) /\ Readable(i)) =>
            /\ res'[i].length = Len(appended)
            /\ rd'[i].offset = rd[i].offset

\* C21: a reader of the list yields the objects appended, in the order of
\* the appends, with has-next true for each and false after the last; Len of
\* the list and of the reader is the number appended, and Len in the middle of
\* an iteration does not change what Next returns next. The EmptyIterator of
\* a list without objects yields nothing and has Len 0.
C21_ReaderYieldsAppended ==
    /\ [](/\ writer.length = Len(appended)
          /\ \A i \in Iterators :
                /\ Len(inodes) <= 1 =>
                     yielded[i] = SubSeq(appended, 1, Len(yielded[i]))
                /\ rd[i].empty => yielded[i] = <<>> /\ res[i].length = 0)
    /\ [][C21_NextStep /\ C21_LenStep]_vars

\* One reader has yielded the two objects appended and got has-next false;
\* the other is in the middle of its iteration and has just called Len.
C21_Witness ==
    /\ Len(appended) = MaxAppend
    /\ appended[1].kind # appended[MaxAppend].kind
    /\ yielded["i1"] = appended
    /\ res["i1"].op = "Next" /\ ~res["i1"].hasNext /\ rd["i1"].error = "nil"
    /\ Len(yielded["i2"]) = 1
    /\ res["i2"].op = "Len" /\ res["i2"].length = MaxAppend

\* The list is closed and its file deleted.
ListClosed == writer.file = NoFile /\ writer.length > 0

\* A reader of a closed list still yields the next object appended.
C22_NextStep ==
    \A i \in Iterators :
        (/\ Returned(i, {"Next", "NextWith"})
         /\ Readable(i)
         /\ ListClosed
         /\ res'[i].err = "nil") =>
            /\ res'[i].hasNext = (Len(yielded[i]) < Len(appended))
            /\ res'[i].hasNext => res'[i].object = appended[Len(yielded[i]) + 1]

\* The close of the list leaves every reader, its file and its path as
\* they were.
C22_CloseStep ==
    (writer.file # NoFile /\ writer'.file = NoFile) =>
        /\ rd' = rd
        /\ inodes' = inodes
        /\ \A i \in Iterators :
              (rd[i].made /\ ~rd[i].empty /\ rd[i].error = "nil") =>
                  FileAt(rd[i].path)' = FileAt(rd[i].path)

\* A call on one iterator leaves the other iterators as they were.
C22_Independent ==
    \A i \in Iterators :
        Returned(i, {"Next", "NextWith", "Len", "Close"}) =>
            \A j \in Iterators \ {i} :
                /\ rd'[j] = rd[j]
                /\ yielded'[j] = yielded[j]
                /\ FileAt(rd[j].path)' = FileAt(rd[j].path)

\* C22: a reader keeps yielding the objects appended before it was taken
\* after the list is closed and its file deleted, and the readers of a list
\* iterate independently.
C22_ReaderSurvivesClose ==
    [][C22_NextStep /\ C22_CloseStep /\ C22_Independent]_vars

\* The list is closed, its path is gone, and two readers taken before are at
\* different positions, one of them at the end.
C22_Witness ==
    /\ ListClosed
    /\ FileAt(writer.path) = NoFile
    /\ Len(appended) = MaxAppend
    /\ yielded["i1"] = appended
    /\ res["i1"].hasNext
    /\ Len(yielded["i2"]) = 1
    /\ rd["i1"].error = "nil" /\ rd["i2"].error = "nil"

\* The close of reader i removes its own path and nothing else.
C23_CloseStep ==
    \A i \in Iterators :
        (Returned(i, {"Close"}) /\ ~rd[i].empty) =>
            /\ FileAt(rd[i].path)' = NoFile
            /\ rd'[i].file = NoFile
            /\ FileAt(writer.path)' = FileAt(writer.path)
            /\ inodes' = inodes
            /\ writer' = writer
            /\ \A j \in Iterators \ {i} :
                  /\ FileAt(rd[j].path)' = FileAt(rd[j].path)
                  /\ rd'[j] = rd[j]

\* The close of the list removes the writer's path.
C23_ListCloseStep ==
    (writer.file # NoFile /\ writer'.file = NoFile) =>
        FileAt(writer.path)' = NoFile

\* C23: the close of a reader removes that reader's path only, the writer's
\* file and the other readers' paths stay and stay readable; after it a
\* further close of the reader has nothing to close or remove; the close of
\* the list removes the writer's path.
C23_CloseRemovesOwnCopy ==
    /\ [](\A i \in Iterators :
            (res[i].op = "Close" /\ ~rd[i].empty) =>
                /\ rd[i].file = NoFile
                /\ ReaderRemove(rd[i]) = links)
    /\ [][C23_CloseStep /\ C23_ListCloseStep]_vars

\* Reader i1 is closed and its path gone, while the writer's path and the
\* path of i2 are there and i2 has read the objects.
C23_Witness ==
    /\ res["i1"].op = "Close"
    /\ rd["i1"].path # 0 /\ rd["i1"].error = "nil"
    /\ FileAt(rd["i1"].path) = NoFile
    /\ FileAt(writer.path) # NoFile
    /\ FileAt(rd["i2"].path) # NoFile
    /\ Len(appended) = MaxAppend
    /\ yielded["i2"] = appended
    /\ yielded["i1"] # <<>>

\* A reader that has failed keeps its error, and its Next and NextWith
\* return has-next false and no object and read nothing.
C24_FailedStep ==
    \A i \in Iterators :
        rd[i].error # "nil" =>
            /\ rd'[i].error = rd[i].error
            /\ yielded'[i] = yielded[i]
            /\ Returned(i, {"Next", "NextWith"}) =>
                  /\ ~res'[i].hasNext
                  /\ res'[i].object = NilObject
                  /\ rd'[i] = rd[i]

\* The error a call returns is the one Error() reports, and a call that
\* finds the end of the file or an object leaves the reader without error.
C24_ErrorStep ==
    \A i \in Iterators :
        (Returned(i, {"Next", "NextWith"}) /\ rd[i].error = "nil") =>
            /\ rd'[i].error = res'[i].err
            /\ (Readable(i) /\ rd[i].offset = Len(inodes[FileAt(rd[i].path)].entries)) =>
                  /\ ~res'[i].hasNext
                  /\ res'[i].err = "nil"

\* C24: once a reader has failed with an error other than the end of the
\* file, also when its file copy could not be made, Error() reports that
\* error and every later Next or NextWith returns has-next false and no
\* object without reading; the end of the file is not an error.
C24_FailedReaderStops == [][C24_FailedStep /\ C24_ErrorStep]_vars

\* Reader i1 failed to decode an object and was called again with objects
\* left to read; reader i2 was taken from the closed list, so its copy could
\* not be made, and was called.
C24_Witness ==
    /\ rd["i1"].error = "decode"
    /\ res["i1"].op = "Next" /\ ~res["i1"].hasNext /\ res["i1"].err = "nil"
    /\ rd["i1"].file # NoFile
    /\ rd["i1"].offset < Len(inodes[rd["i1"].file].entries)
    /\ rd["i2"].error = "sync"
    /\ res["i2"].op = "NextWith" /\ ~res["i2"].hasNext

\* The detail level the tag states: N for d<N>, else 0 for a primary or
\* natural key and 1 for another field.
StatedDetail(tag) ==
    IF tag.d # NoDetail
    THEN tag.d
    ELSE IF "pk" \in tag.opts \/ "key" \in tag.opts THEN 0 ELSE 1

\* C25: a field tagged d<N> has detail level N for every N in 0..10, an
\* untagged field level 1 and a key field level 0, and a List with Detail D
\* populates exactly the fields whose level is at most D.
C25_DetailLevels ==
    dlist.done =>
        dlist.populated =
            {f \in DetailFields : StatedDetail(dtag[f]) <= dlist.detail}

\* Steps of the task that is inside Client.Close.
CloseStep == cpc' # cpc \/ closing' # closing

\* C26: Client.Close may be called any number of times. In every call the
\* journal is closed, with every watch of its list ended, before the session
\* pool is closed, and the file is deleted only after that. Every call returns
\* nil; a call made after another has returned does not end again a watch the
\* first call ended, and no step of Client.Close calls a handler.
C26_Order ==
    /\ poolCloses' # poolCloses =>
            /\ closing = <<>>
            /\ \A w \in Range(atClose) : w \notin Range(watchList)
            /\ \A w \in Range(atClose) : endReq[w] => qclosed[w]
    /\ dbFile /\ ~dbFile' => poolCloses > closeCalls

C26_Later ==
    /\ closeCalls > 0 => Range(closing') \cap Range(atClose) = {}
    /\ closeCalls > 0 /\ CloseStep =>
            \A w \in Range(atClose) : qclosed'[w] = qclosed[w] /\ endReq'[w] = endReq[w]
    /\ CloseStep => calls' = calls
    /\ closeCalls' # closeCalls => closeRet' = "nil"

HasError(w) == \E i \in 1..Len(calls[w]) : calls[w][i].cb = Error

\* The callbacks a step adds to the calls of watch w.
Added(w) == SubSeq(calls'[w], Len(calls[w]) + 1, Len(calls'[w]))

\* The iterator of transaction t is in the queue of watch w.
InQueue(w, t) == \E i \in 1..Len(queue[w]) : queue[w][i].tx = t

\* A step that calls handler.Error on w leaves w as it was: registered or not,
\* its queue open or closed, not done, the run closure inside its loop, and
\* handler.End not called.
C27_ErrorStep ==
    \A w \in Watches :
        (\E i \in 1..Len(Added(w)) : Added(w)[i].cb = Error) =>
            /\ qclosed'[w] = qclosed[w]
            /\ (w \in Range(watchList')) = (w \in Range(watchList))
            /\ wdone'[w] = wdone[w] /\ ~wdone'[w]
            /\ wstarted'[w] = wstarted[w]
            /\ dpc'[w] # "stopped"
            /\ \A i \in 1..Len(Added(w)) : Added(w)[i].cb # End

\* A transaction reported to a watch that has had an Error, is registered and
\* has room in its open queue, is queued; the pass of the run closure over an
\* iterator it reads without error makes the callbacks of its events.
C27_LaterStep ==
    \A w \in Watches : HasError(w) =>
        /\ \A t \in Txs :
                (/\ txState[t] = "report" /\ txState'[t] = "closed"
                 /\ staged[t] # <<>>
                 /\ w \in Range(watchList)
                 /\ ~qclosed[w] /\ Len(queue[w]) < QueueCap)
                => queue'[w] = Append(queue[w], Iter(t, staged[t]))
        /\ (dpc[w] = "batch" /\ dpc'[w] # "batch" /\ finished'[w] # finished[w])
                => \E tail \in {<<>>, <<ParityCall>>} :
                      Added(w) = Drain(w, cur[w].items, cur[w].live) \o tail

\* C27: handler.Error never stops a watch. The step that calls it changes
\* nothing of the life of the watch; a watch is done, and End called, only
\* after Journal.End closed its queue; a transaction reported after an Error
\* is queued and its events are dispatched as before; and an iterator queued
\* on a watch that has had an Error is received by the run closure in the end.
C27_ErrorKeepsWatch ==
    /\ [][C27_ErrorStep /\ C27_LaterStep]_vars
    /\ [](\A w \in Watches :
            (wdone[w] \/ CallsOf(w, End) # {}) => endReq[w] /\ qclosed[w])
    /\ \A w \in Watches : \A t \in Txs :
            (HasError(w) /\ InQueue(w, t)) ~> (dpc[w] = "batch" /\ cur[w].tx = t)

\* After an Error for a full queue and an Error for an iterator that could
\* not be read, the watch has had the event of another transaction, and is
\* alive.
C27_Witness ==
    \E w \in Watches : \E i, j, k \in 1..Len(calls[w]) :
        /\ calls[w][i].cb = Error /\ calls[w][i].err = FullQueue
        /\ calls[w][j].cb = Error /\ calls[w][j].err = ReadFailed
        /\ i < k /\ j < k
        /\ calls[w][k].cb = Created /\ calls[w][k].live
        /\ calls[w][k].ev.tx # calls[w][i].ev.tx
        /\ calls[w][k].ev.tx # calls[w][j].ev.tx
        /\ Alive(w) /\ wstarted[w]
        /\ CallsOf(w, End) = {}

\* C28 as stated: in Client.Watch with a snapshot the writer sessions are
\* given back before the watch is started, so that handler.Started, and every
\* other callback, is made while no writer session is parked.
C28_ReleasedBeforeStart ==
    [][\A w \in Watches : wsnap[w] =>
            /\ (~wstarted[w] /\ wstarted'[w]) => wheld[w] = 0
            /\ Added(w) # <<>> => wheld[w] = 0]_vars

\* The steps of Client.Watch with a snapshot, each told by what it changes.
C28_Order ==
    \A w \in Watches : wsnap[w] =>
        \* the snapshot is read with every writer session parked
        /\ (wpc[w] = "find" /\ wpc'[w] = "register") =>
                /\ wheld[w] = NWriter /\ writers = 0
                /\ w \notin Range(watchList)
        \* the watch is registered after the snapshot was read
        /\ (w \notin Range(watchList) /\ w \in Range(watchList')) =>
                /\ wpc[w] = "register"
                /\ wheld[w] = NWriter /\ wheld'[w] = NWriter
                /\ ~wstarted[w]
        \* the watch is started, registered, with the sessions still parked
        /\ (~wstarted[w] /\ wstarted'[w]) =>
                /\ w \in Range(watchList)
                /\ wheld[w] = NWriter /\ wheld'[w] = NWriter
                /\ Added(w) = <<StartedCall>>
        \* the sessions are given back last, all at once
        /\ wheld'[w] < wheld[w] =>
                /\ wheld'[w] = 0
                /\ wpc'[w] \in {"watching", "failed"}
                /\ wpc'[w] = "watching" => CallsOf(w, Started) # {}

\* C28, amended: Client.Watch with a snapshot parks every writer session,
\* reads the snapshot, registers the watch, starts it and gives the sessions
\* back when it returns: handler.Started is called while the writers are
\* parked.
C28_StartBeforeRelease == [][C28_Order]_vars

\* Client.Watch has not returned, so the writer sessions are parked; Started
\* was called and the dispatch goroutine has made the callback of a record of
\* the snapshot.
C28_Witness ==
    \E w \in Watches :
        /\ wsnap[w]
        /\ wheld[w] = NWriter /\ writers = 0
        /\ wpc[w] = "return"
        /\ CallsOf(w, Started) # {}
        /\ \E i \in 1..Len(calls[w]) : calls[w][i].cb = Created /\ ~calls[w][i].live

\* Transaction t holds a writer session: from Begin to the Return of the
\* deferred function of Commit, or to End.
HoldsWriter(t) == txState[t] \in {"open", "committed", "failed"}

\* The task of watch w is inside Client.Watch with a snapshot, between
\* blockWriting and the return.
Parked(w) == wsnap[w] /\ wpc[w] \in {"find", "register", "start", "return"}

\* Every writer session is parked by the task of watch w, and no transaction
\* holds one.
C29_Barrier(w) ==
    /\ wheld[w] = NWriter
    /\ writers = 0
    /\ \A t \in Txs : ~HoldsWriter(t)

\* While the task of w is between blockWriting and its return no transaction
\* begins, and none commits: the committed rows stay as they are.
C29_Step ==
    \A w \in Watches : (Parked(w) /\ Parked(w)') =>
        /\ \A t \in Txs : txState'[t] = "open" => txState[t] = "open"
        /\ commitOrder' = commitOrder
        /\ rows' = rows

\* C29: from before the snapshot read until after the registration, and up
\* to the return of Client.Watch, every writer session is held by the task,
\* so that no transaction begins or commits; the sessions are all given back
\* when Client.Watch returns, with the watch or with the error of the
\* snapshot read.
C29_WritersParked ==
    /\ [](\A w \in Watches : Parked(w) => C29_Barrier(w))
    /\ [](\A w \in Watches : wpc[w] \in {"watching", "failed"} => wheld[w] = 0)
    /\ [][C29_Step]_vars

\* Client.Watch returned the error of the snapshot read, and a transaction
\* that had to wait for a writer session has begun since.
C29_Witness ==
    \E w \in Watches : \E t \in Txs :
        /\ wsnap[w] /\ wpc[w] = "failed"
        /\ wheld[w] = 0
        /\ commitOrder # <<>>
        /\ txState[t] = "open"
        /\ t \notin Range(commitOrder)

\* The real commit of transaction t has failed.
CommitFailed(t) ==
    \/ txState[t] = "failed"
    \/ txState[t] = "closed" /\ ended[t] /\ cerr[t] = "err"

\* The return of a Tx.Commit whose real commit failed: the error is
\* returned, the writer session is given back, and the task goes past
\* report(): the journal and the watches are left as they were.
C30_ReturnStep ==
    \A t \in Txs : (txState[t] = "failed" /\ txState'[t] # "failed") =>
        /\ cerr'[t] = "err"
        /\ writers' = writers + 1
        /\ ended'[t]
        /\ txState'[t] = "closed"
        /\ reportOrder' = reportOrder /\ reported' = reported
        /\ queue' = queue /\ calls' = calls

\* C30: when the real commit fails Tx.Commit returns the error, gives the
\* writer session back and leaves the transaction ended; its staged events
\* never reach the journal: they are not reported, no watch holds an iterator
\* over them and no callback is made for them, and the committed rows are
\* not those of the transaction.
C30_FailedCommit ==
    /\ [][C30_ReturnStep]_vars
    /\ [](\A t \in Txs : CommitFailed(t) =>
            /\ ended[t]
            /\ t \notin Range(commitOrder)
            /\ t \notin Range(reportOrder)
            /\ reported[t] = <<>>
            /\ \A w \in Watches :
                    /\ \A b \in Held(w) : b.tx # t
                    /\ \A i \in 1..Len(calls[w]) : calls[w][i].ev.tx # t)
    /\ [](\A t \in Txs : cerr[t] = "nil" => t \in Range(commitOrder))

\* A transaction with a staged event whose commit failed has returned from
\* Commit, beside a registered watch of the kind of the event; a later
\* transaction holds the writer session.
C30_Witness ==
    \E t, u \in Txs :
        /\ txState[t] = "closed" /\ cerr[t] = "err"
        /\ ended[t]
        /\ staged[t] # <<>>
        /\ "w1" \in Range(watchList) /\ wstarted["w1"]
        /\ txState[u] = "open"

\* C31: a Client.Begin whose session.Begin() failed returns a non-nil error
\* and no transaction, and has given the writer session back: the sessions
\* that are not free are those of the open transactions.
C31_BeginFailure ==
    \A t \in Txs : txState[t] = "unbegun" =>
        /\ beginRet[t].made
        /\ ~beginRet[t].tx
        /\ beginRet[t].error # "nil"
        /\ writers + Cardinality({u \in Txs : HoldsWriter(u)}) = NWriter

\* A step of Tx.Update on a record without a row in the transaction: in the
\* transaction of the journal, and in the one on labeled records.
UpdateOfAbsent(t, rec) ==
    /\ txState[t] = "open" /\ rec \notin txRows[t]
    /\ \/ ret'[t] # ret[t]
       \/ /\ Len(issued'[t]) > Len(issued[t])
          /\ issued'[t][Len(issued'[t])] = [action |-> Updated, rec |-> rec]

LabelUpdateOfAbsent(rec) ==
    /\ ltx.open /\ ~ltx.models[rec].present
    /\ ltx'.open /\ ltx'.ops > ltx.ops
    /\ ~ltx'.models[rec].present

\* C34: Tx.Update of a record whose row is absent returns NotFound, and
\* leaves the rows, the label rows and the staged events as they were.
C34_Step ==
    /\ \A t \in Txs : \A rec \in Recs : UpdateOfAbsent(t, rec) =>
            /\ ret'[t] = "NotFound"
            /\ rows' = rows /\ txRows' = txRows
            /\ staged' = staged /\ issued' = issued
            /\ serial' = serial
            /\ txState' = txState
    /\ LabelUpdateOfAbsent(FanRec) =>
            /\ ltx'.models = ltx.models
            /\ ltx'.labels = ltx.labels
            /\ modelLabels' = modelLabels /\ labelRows' = labelRows

C34_UpdateAbsent == [][C34_Step]_vars

\* Tx.Update of a record without a row has returned NotFound in a transaction
\* that holds nothing, and the transaction on labeled records has made an
\* Update of a record without a row.
C34_Witness ==
    \E t \in Txs :
        /\ ret[t] = "NotFound"
        /\ txState[t] = "open"
        /\ txRows[t] = {} /\ staged[t] = <<>>
        /\ ltx.open /\ ltx.ops > 1
        /\ \A rec \in Recs : ~ltx.models[rec].present
        /\ ltx.labels = {}

\* C32: a write operation of the client that has returned has ended the
\* transaction it began and given its writer session back, whether the
\* operation of the transaction succeeded or failed.
C32_ClientOpEnds ==
    \A t \in Txs : cop[t].pos = "returned" =>
        /\ ended[t]
        /\ txState[t] \in {"closed", "ended"}
        /\ ~HoldsWriter(t)

\* C33: the fan-out of a commit comes to its end whatever the handler does
\* in Error: the committing task, which holds the journal lock inside
\* Journal.Report, is never at the Lock() of a Journal.End that its own call
\* of handler.Error made.
C33_FanoutTerminates ==
    \A t \in Txs : \A w \in Watches :
        ~(txState[t] = "reporting" /\ t \in ending[w])

\* The step is an Insert(m) made when a row holds the primary key of m, and
\* when a row holds its unique group.
InsertOf(m) == uq'.ops = uq.ops + 1 /\ uq'.last = "insert" /\ uq'.m = m
PkHeld(m) == uq.rows[m.PK].present
UniqueHeld(m) == \E p \in UPks : uq.rows[p].present /\ uq.rows[p].U = m.U
CreatedOf(m) == [action |-> "created", model |-> m]
\* Insert(m) did what Update(m) does to the row of m, and staged one event.
InsertedAsUpdate(m) ==
    /\ uq'.err = "nil"
    /\ uq'.rows[m.PK] = [present |-> TRUE, U |-> m.U, Name |-> m.Name]
    /\ \A p \in UPks \ {m.PK} : uq'.rows[p] = uq.rows[p]
    /\ uq'.staged = Append(uq.staged, CreatedOf(m))
InsertFailed == uq'.err # "nil" /\ uq'.staged = uq.staged /\ uq'.rows = uq.rows

\* C35 as stated: an Insert of a record whose primary key or unique group is
\* held by a row does not fail, the row takes the values as in Update and one
\* created event is staged; a failed Insert stages no event.
C35_Step ==
    \A m \in UModels :
        InsertOf(m) =>
            /\ (PkHeld(m) \/ UniqueHeld(m)) => InsertedAsUpdate(m)
            /\ uq'.err # "nil" => uq'.staged = uq.staged
C35_PkStep ==
    \A m \in UModels :
        InsertOf(m) =>
            /\ (PkHeld(m) /\ ~UniqueHit(uq.rows, m)) => InsertedAsUpdate(m)
            /\ UniqueHit(uq.rows, m) => InsertFailed
            /\ (UniqueHit(uq.rows, m) /\ ~PkHeld(m)) => uq'.err = "NotFound"
            /\ uq'.err # "nil" => InsertFailed
UpdateDone ==
    /\ objRow.present
    /\ objLast' = "update"
    /\ objEvent'.updated = objA'.m
    /\ objRow' # objRow \/ objEvent' # objEvent

\* The column written for a field of m, read from m after the call.
WrittenColumn(f, v) == IF Incremented(f) THEN v ELSE Pull(f, v)

\* C36: Update(m) leaves the columns of the pk, key, virtual and const fields
\* as they were, gives every other column the value of m, and stages an
\* Updated event whose model is the row as it was before the update.
C36_Step ==
    UpdateDone =>
        /\ \A f \in Fields :
             IF Pk(f) \/ Key(f) \/ Virtual(f) \/ hasOpt(f, "const")
             THEN objRow'.cols[f] = objRow.cols[f]
             ELSE objRow'.cols[f] = WrittenColumn(f, objA'.m[f])
        /\ objEvent'.action = "updated"
        /\ \A f \in Fields : objEvent'.model[f] = Push(f, objRow.cols[f])
C36_UpdateFrame == [][C36_Step]_vars

\* An Update that changed a mutable column and whose m differs from the row
\* in the key, the virtual and the const field: the event holds the old name.
C36_Witness ==
    /\ objLast = "update"
    /\ objEvent.action = "updated"
    /\ objEvent.model["Name"] = "Elmer" /\ objRow.cols["Name"] = "Larry"
    /\ objEvent.updated["ID"] # objRow.cols["ID"]
    /\ objEvent.updated["Fixed"] # objRow.cols["Fixed"]
    /\ objEvent.updated["RowID"] # objRow.cols["RowID"]
    /\ objEvent.model["Fixed"] = objRow.cols["Fixed"]

\* C37: the count of Len() and the count in the header of the list's file are
\* the number of entries in the list's current file; a list with no file
\* (closed, or not yet appended to) counts no entries.
C37_LenMatchesFile ==
    IF writer.file = NoFile
    THEN writer.length = 0
    ELSE /\ writer.length = Len(inodes[writer.file].entries)
         /\ inodes[writer.file].count = Len(inodes[writer.file].entries)

\* C38: the queue of a watch is closed at most once, whatever the calls of
\* Watch.End and of the close of the journal and whatever the state of the
\* watch; a watch that a commit notifies has an open queue, so that the send
\* in notify does not panic.
C38_ClosedOnce ==
    /\ \A w \in Watches : qcloses[w] <= 1
    /\ \A w \in Watches : qclosed[w] <=> qcloses[w] = 1
    /\ \A w \in Range(watchList) : ~qclosed[w]

\* The owner ended the watch twice and started it again after it had stopped,
\* the journal was closed, and the queue was closed once.
C38_Witness ==
    /\ endCalls["w1"] = MaxEnd
    /\ restarts["w1"] = MaxRestart
    /\ closed /\ closing = <<>>
    /\ wdone["w1"] /\ ~wstarted["w1"]
    /\ qcloses["w1"] = 1
    /\ \E t \in Txs : txState[t] = "closed"

\* The watch was ended before it was started: its queue was never closed.
C38_WitnessEarly ==
    /\ closed /\ closing = <<>>
    /\ "w1" \notin Range(watchList)
    /\ wstarted["w1"]
    /\ endCalls["w1"] = MaxEnd
    /\ qcloses["w1"] = 0

\* The token of the last request was cached and younger than the TTL.
CachedFresh ==
    /\ au.last.cachedAt # NoTime
    /\ au.last.at - au.last.cachedAt <= TokenTTL

\* C39: a request is passed to the next handler only if its token was cached
\* and younger than the TTL or a token review has just authenticated it; a
\* request without a token is not passed on, and a token cached for longer
\* than the TTL is reviewed again.
C39_PassedOnlyAuthenticated ==
    /\ au.last.outcome = "next" =>
          \/ CachedFresh
          \/ au.last.reviewed /\ au.last.review = "valid"
    /\ (au.last.outcome # "none" /\ au.last.token = "") =>
          au.last.outcome # "next"
    /\ (au.last.outcome # "none" /\ au.last.token # "" /\ ~CachedFresh) =>
          au.last.reviewed

\* A step qualifies when one of its Any flags is allowed, if it has any, and
\* all of its All flags are.
Qualifies(step) ==
    /\ step.Any # {} => step.Any \cap itin.allowed # {}
    /\ step.All \subseteq itin.allowed
\* The steps of the pipeline after the step that Next was called with.
LaterSteps ==
    {i \in 1..Len(itin.pipeline) :
        \E c \in 1..(i - 1) :
            /\ itin.pipeline[c].Name = itin.name
            /\ \A j \in (c + 1)..Len(itin.pipeline) :
                  itin.pipeline[j].Name # itin.name}

\* C40: Next(name) returns the first later step that qualifies, done when no
\* later step qualifies, and StepNotFound when no step is called name.
C40_NextQualifies ==
    itin.called =>
        IF \A i \in 1..Len(itin.pipeline) : itin.pipeline[i].Name # itin.name
        THEN itin.err = "StepNotFound" /\ itin.next = 0 /\ ~itin.done
        ELSE /\ itin.err = "nil"
             /\ itin.done <=> \A i \in LaterSteps : ~Qualifies(itin.pipeline[i])
             /\ itin.done => itin.next = 0
             /\ ~itin.done =>
                   /\ itin.next \in LaterSteps
                   /\ Qualifies(itin.pipeline[itin.next])
                   /\ \A i \in LaterSteps :
                         i < itin.next => ~Qualifies(itin.pipeline[i])

====
